---- MODULE Spec2Model ----
(***************************************************************************)
(* OBD meter: the protocol engine (OBDProtocol), its polling scheduler and *)
(* the Bluetooth Classic transport (ClassicBluetoothConnectionManager).    *)
(*                                                                         *)
(* JavaScript runs one macrotask (a timer, a native event, a caller's      *)
(* call) and then drains the microtask queue.  A promise that has been     *)
(* settled puts its awaiting caller in stage "ok" / "err"; while any       *)
(* caller is in such a stage only continuations run (MicrotaskPending).    *)
(* The suspension points that let other macrotasks in are the native       *)
(* promises (clear, write), the pending reply and the timers.              *)
(***************************************************************************)
EXTENDS Integers, Sequences, FiniteSets, TLC

Null == "null"

(***************************************************************************)
(* Strings.  A string is a sequence of one-character strings; Chars gives  *)
(* the characters of the literals the model uses.                          *)
(***************************************************************************)
Chars ==
  [s \in {"7DF", "7E2", "7C4", "2181", "2121", "010D", "010d", "0105",
          "TOYOTA_HV_VOLTAGE", "TOYOTA_CABIN_TEMP", "PC_7E2_2181_V01",
          "NO DATA", "ERROR", "UNABLE TO CONNECT", "?", "ATSH ", "OK",
          "6181 0A 0B", "41 0D 3C", "410D3C", "4105",
          "0100", "0120", "0140", "03", "07", "04", "44", "010C", "220138",
          "41 00 BE 1F A8 13", "41 00 80 00 00 00", "41 20 80 00 00 01",
          "41 20 80 00 00 00", "43 01 03", "47 02 04", "41 0C 1A F8", "62 01 38 7D"} |->
     CASE s = "7DF" -> <<"7","D","F">>
       [] s = "7E2" -> <<"7","E","2">>
       [] s = "7C4" -> <<"7","C","4">>
       [] s = "2181" -> <<"2","1","8","1">>
       [] s = "2121" -> <<"2","1","2","1">>
       [] s = "010D" -> <<"0","1","0","D">>
       [] s = "010d" -> <<"0","1","0","d">>
       [] s = "0105" -> <<"0","1","0","5">>
       [] s = "TOYOTA_HV_VOLTAGE" ->
            <<"T","O","Y","O","T","A","_","H","V","_","V","O","L","T","A","G","E">>
       [] s = "TOYOTA_CABIN_TEMP" ->
            <<"T","O","Y","O","T","A","_","C","A","B","I","N","_","T","E","M","P">>
       [] s = "PC_7E2_2181_V01" ->
            <<"P","C","_","7","E","2","_","2","1","8","1","_","V","0","1">>
       [] s = "NO DATA" -> <<"N","O"," ","D","A","T","A">>
       [] s = "ERROR" -> <<"E","R","R","O","R">>
       [] s = "UNABLE TO CONNECT" ->
            <<"U","N","A","B","L","E"," ","T","O"," ","C","O","N","N","E","C","T">>
       [] s = "?" -> <<"?">>
       [] s = "ATSH " -> <<"A","T","S","H"," ">>
       [] s = "OK" -> <<"O","K">>
       [] s = "6181 0A 0B" -> <<"6","1","8","1"," ","0","A"," ","0","B">>
       [] s = "41 0D 3C" -> <<"4","1"," ","0","D"," ","3","C">>
       [] s = "410D3C" -> <<"4","1","0","D","3","C">>
       [] s = "4105" -> <<"4","1","0","5">>
       [] s = "0100" -> <<"0","1","0","0">>
       [] s = "0120" -> <<"0","1","2","0">>
       [] s = "0140" -> <<"0","1","4","0">>
       [] s = "03" -> <<"0","3">>
       [] s = "07" -> <<"0","7">>
       [] s = "04" -> <<"0","4">>
       [] s = "44" -> <<"4","4">>
       [] s = "010C" -> <<"0","1","0","C">>
       [] s = "220138" -> <<"2","2","0","1","3","8">>
       [] s = "41 00 BE 1F A8 13" ->
            <<"4","1"," ","0","0"," ","B","E"," ","1","F"," ","A","8"," ","1","3">>
       [] s = "41 00 80 00 00 00" ->
            <<"4","1"," ","0","0"," ","8","0"," ","0","0"," ","0","0"," ","0","0">>
       [] s = "41 20 80 00 00 01" ->
            <<"4","1"," ","2","0"," ","8","0"," ","0","0"," ","0","0"," ","0","1">>
       [] s = "41 20 80 00 00 00" ->
            <<"4","1"," ","2","0"," ","8","0"," ","0","0"," ","0","0"," ","0","0">>
       [] s = "43 01 03" -> <<"4","3"," ","0","1"," ","0","3">>
       [] s = "47 02 04" -> <<"4","7"," ","0","2"," ","0","4">>
       [] s = "41 0C 1A F8" -> <<"4","1"," ","0","C"," ","1","A"," ","F","8">>
       [] s = "62 01 38 7D" -> <<"6","2"," ","0","1"," ","3","8"," ","7","D">>]

HexDigits == <<"0","1","2","3","4","5","6","7","8","9","A","B","C","D","E","F">>
LowerCase == <<"a","b","c","d","e","f">>
UpperCase == <<"A","B","C","D","E","F">>

IsHex(ch) == \E i \in 1..16 : HexDigits[i] = ch
HexVal(ch) == (CHOOSE i \in 1..16 : HexDigits[i] = ch) - 1
IsSpace(ch) == ch \in {" ", "\t", "\n", "\r"}

toUpperCase(s) ==
  [i \in 1..Len(s) |->
     IF \E k \in 1..6 : LowerCase[k] = s[i]
       THEN UpperCase[CHOOSE k \in 1..6 : LowerCase[k] = s[i]]
       ELSE s[i]]

\* s.replace(/\s+/g, '')
stripWhitespace(s) == SelectSeq(s, LAMBDA ch : ~IsSpace(ch))

\* s.replace(/>/g, '')
stripPrompt(s) == SelectSeq(s, LAMBDA ch : ch # ">")

\* s.trim()
trim(s) ==
  LET nonSpace == {i \in 1..Len(s) : ~IsSpace(s[i])}
      first == CHOOSE i \in nonSpace : \A j \in nonSpace : i <= j
      last == CHOOSE i \in nonSpace : \A j \in nonSpace : j <= i
  IN IF nonSpace = {} THEN <<>> ELSE SubSeq(s, first, last)

\* s.includes(sub)
includes(s, sub) ==
  \E i \in 0..(Len(s) - Len(sub)) : SubSeq(s, i + 1, i + Len(sub)) = sub

\* parseInt(pair, 16) of a two-character string; NaN is modelled by -1
NaN == 0 - 1
parseInt16(pair) ==
  IF ~IsHex(pair[1]) THEN NaN
  ELSE IF ~IsHex(pair[2]) THEN HexVal(pair[1])
  ELSE 16 * HexVal(pair[1]) + HexVal(pair[2])

(***************************************************************************)
(* PID registry.  A definition carries the request and header of a signal  *)
(* (Null when the source leaves them out) and the name of its decoder.     *)
(***************************************************************************)
DEFAULT_TX_HEADER == "7DF"

STANDARD_PIDS ==
  [id \in {"010D", "0105"} |-> [request |-> Null, header |-> Null, decode |-> id]]

ZVW30_ALIAS_PIDS ==
  [id \in {"TOYOTA_HV_VOLTAGE", "TOYOTA_CABIN_TEMP"} |->
     IF id = "TOYOTA_HV_VOLTAGE"
       THEN [request |-> "2181", header |-> "7E2", decode |-> id]
       ELSE [request |-> "2121", header |-> "7C4", decode |-> id]]

PRIUSCHAT_METRIC_PIDS ==
  [id \in {"PC_7E2_2181_V01"} |->
     [request |-> "2181", header |-> "7E2", decode |-> id]]

\* { ...a, ...b }
Spread(a, b) ==
  [id \in (DOMAIN a) \cup (DOMAIN b) |-> IF id \in DOMAIN b THEN b[id] ELSE a[id]]

\* { ...ZVW30_ALIAS_PIDS, ...PRIUSCHAT_METRIC_PIDS } on given tables
MergeToyota(alias, generated) == Spread(alias, generated)

TOYOTA_PIDS == MergeToyota(ZVW30_ALIAS_PIDS, PRIUSCHAT_METRIC_PIDS)

\* { ...STANDARD_PIDS, ...TOYOTA_PIDS } on given tables
MergeAll(standard, toyota) == Spread(standard, toyota)

allPidDefinitions == MergeAll(STANDARD_PIDS, TOYOTA_PIDS)

\* whether this.allPidDefinitions[id] is defined
IsKnown(id) == id \in DOMAIN allPidDefinitions

(***************************************************************************)
(* OBDProtocol: pure helpers.                                              *)
(***************************************************************************)
\* (header ?? DEFAULT_TX_HEADER).trim().toUpperCase()
DesiredHeader(header) ==
  toUpperCase(trim(Chars[IF header = Null THEN DEFAULT_TX_HEADER ELSE header]))

\* (def?.request ?? id).replace(/\s+/g, '').toUpperCase()
RequestOf(id) ==
  toUpperCase(stripWhitespace(
    Chars[IF IsKnown(id) /\ allPidDefinitions[id].request # Null
            THEN allPidDefinitions[id].request ELSE id]))

\* def?.header
HeaderOf(id) == IF IsKnown(id) THEN allPidDefinitions[id].header ELSE Null

\* `${(header ?? DEFAULT_TX_HEADER).trim().toUpperCase()}|${request}`
GroupKey(id) == DesiredHeader(HeaderOf(id)) \o <<"|">> \o RequestOf(id)

\* a grouping loop that never finds the key in groupIndex
AddToGroupsNoMerge(acc, id) ==
  [groups |-> Append(acc.groups,
                [request |-> RequestOf(id), header |-> HeaderOf(id), ids |-> <<id>>]),
   groupIndex |-> acc.groupIndex]

\* one iteration of the grouping loop: acc = [groups, groupIndex]
AddToGroups(acc, id) ==
  LET key == GroupKey(id)
  IN IF key \notin DOMAIN acc.groupIndex
       THEN [groups |-> Append(acc.groups,
                         [request |-> RequestOf(id), header |-> HeaderOf(id),
                          ids |-> <<id>>]),
             groupIndex |-> acc.groupIndex @@ (key :> Len(acc.groups) + 1)]
       ELSE LET idx == acc.groupIndex[key]
            IN [acc EXCEPT !.groups[idx].ids = Append(@, id)]

RECURSIVE GroupLoop(_, _)
GroupLoop(acc, pids) ==
  IF pids = <<>> THEN acc ELSE GroupLoop(AddToGroups(acc, Head(pids)), Tail(pids))

\* the groups startPolling builds for a list of ids
BuildGroups(pids) == GroupLoop([groups |-> <<>>, groupIndex |-> <<>>], pids).groups

\* formatObdCommand: the compact upper-case request as space separated pairs
formatObdCommand(request) ==
  LET compact == toUpperCase(stripWhitespace(request))
      n == Len(compact)
      nparts == (n + 1) \div 2
      out == [i \in 1..(n + nparts - 1) |->
                IF i % 3 = 0 THEN " " ELSE compact[i - (i \div 3)]]
  IN IF n = 0 THEN compact ELSE out

\* cleaned.match(/[0-9A-F]{2}/g): leftmost non-overlapping hex pairs, as bytes
RECURSIVE MatchPairs(_, _)
MatchPairs(s, i) ==
  IF i + 1 > Len(s) THEN <<>>
  ELSE IF IsHex(s[i]) /\ IsHex(s[i + 1])
         THEN <<16 * HexVal(s[i]) + HexVal(s[i + 1])>> \o MatchPairs(s, i + 2)
         ELSE MatchPairs(s, i + 1)

\* every pair of the echoed pid is two hex digits
PidPairsAreHex(pidHex) ==
  \A k \in 1..(Len(pidHex) \div 2) : IsHex(pidHex[2 * k - 1]) /\ IsHex(pidHex[2 * k])

\* an echo that is taken to be one byte long
PidBytesFirstOnly(pidHex) ==
  [k \in 1..(IF Len(pidHex) >= 2 THEN 1 ELSE 0) |->
     16 * HexVal(pidHex[2 * k - 1]) + HexVal(pidHex[2 * k])]

\* the bytes of the echoed pid
PidBytes(pidHex) ==
  [k \in 1..(Len(pidHex) \div 2) |->
     16 * HexVal(pidHex[2 * k - 1]) + HexVal(pidHex[2 * k])]

\* parseResponseBytes(rawResponse, pid): the payload after the first
\* occurrence of [responseMode, ...pidBytes]; <<>> when there is none
parseResponseBytes(rawResponse, pid) ==
  LET cleaned == toUpperCase(trim(stripPrompt(rawResponse)))
      request == toUpperCase(stripWhitespace(pid))
      mode == parseInt16(SubSeq(request, 1, 2))
      responseMode == IF mode = NaN THEN NaN ELSE mode + 64
      pidHex == SubSeq(request, 3, Len(request))
      pidBytes == PidBytes(pidHex)
      allBytes == MatchPairs(cleaned, 1)
      headerSeq == <<responseMode>> \o pidBytes
      hits == {i \in 0..(Len(allBytes) - Len(headerSeq)) :
                 SubSeq(allBytes, i + 1, i + Len(headerSeq)) = headerSeq}
      first == CHOOSE i \in hits : \A j \in hits : i <= j
      dataStart == first + Len(headerSeq)
  IN IF \/ includes(cleaned, Chars["NO DATA"])
        \/ includes(cleaned, Chars["ERROR"])
        \/ includes(cleaned, Chars["UNABLE TO CONNECT"])
        \/ includes(cleaned, Chars["?"])
       THEN <<>>
     ELSE IF Len(request) < 2 \/ Len(request) % 2 # 0 THEN <<>>
     ELSE IF ~PidPairsAreHex(pidHex) THEN <<>>
     ELSE IF allBytes = <<>> THEN <<>>
     ELSE IF hits = {} THEN <<>>
     ELSE IF dataStart >= Len(allBytes) THEN <<>>
     ELSE SubSeq(allBytes, dataStart + 1, Len(allBytes))

(***************************************************************************)
(* Supported-PID bitmasks and trouble codes.                               *)
(***************************************************************************)
SUPPORTED_PID_QUERIES == <<"0100", "0120", "0140">>

\* n.toString(16).toUpperCase().padStart(2, '0')
toHex2(n) ==
  IF n < 256
    THEN <<HexDigits[(n \div 16) + 1], HexDigits[(n % 16) + 1]>>
    ELSE <<HexDigits[(n \div 256) + 1], HexDigits[((n \div 16) % 16) + 1],
           HexDigits[(n % 16) + 1]>>

\* the same test with mask = 1 << bit: bit 0 the lowest bit of the last byte
BitIsSetLsbFirst(bytes, bit) ==
  (bytes[4 - (bit \div 8)] \div (2 ^ (bit % 8))) % 2 = 1

\* (bitmask & mask) !== 0 for mask = 1 << (31 - bit), on the four bytes
BitIsSet(bytes, bit) == (bytes[(bit \div 8) + 1] \div (2 ^ (7 - (bit % 8)))) % 2 = 1

\* decodeSupportedPids(query, bytes): the ids whose bit is set, in bit order
decodeSupportedPids(query, bytes) ==
  LET mode == SubSeq(query, 1, 2)
      basePid == parseInt16(SubSeq(query, 3, 4))
      bits == SelectSeq([b \in 1..32 |-> b - 1], LAMBDA bit : BitIsSet(bytes, bit))
  IN IF Len(bytes) < 4 THEN <<>>
     ELSE [k \in 1..Len(bits) |-> mode \o toHex2(basePid + bits[k] + 1)]

\* `${mode}${lastPidHex}`: the id of the range query that follows `query`
NextRangeQuery(query) ==
  SubSeq(query, 1, 2) \o toHex2(parseInt16(SubSeq(query, 3, 4)) + 32)

\* array.includes(x)
SeqIncludes(seq, x) == \E k \in 1..Len(seq) : seq[k] = x

\* s.replace(/\r/g, ' ').replace(/\n/g, ' ')
replaceNewlines(s) == [i \in 1..Len(s) |-> IF s[i] \in {"\r", "\n"} THEN " " ELSE s[i]]

\* s.split(/\s+/) without empty tokens
RECURSIVE SplitWhitespace(_)
SplitWhitespace(s) ==
  IF s = <<>> THEN <<>>
  ELSE IF IsSpace(s[1]) THEN SplitWhitespace(Tail(s))
  ELSE LET spaces == {i \in 1..Len(s) : IsSpace(s[i])}
           n == IF spaces = {} THEN Len(s) + 1
                ELSE CHOOSE i \in spaces : \A j \in spaces : i <= j
       IN <<SubSeq(s, 1, n - 1)>> \o SplitWhitespace(SubSeq(s, n, Len(s)))

\* /^[0-9A-Fa-f]{2}$/.test(t)
IsHexToken(t) == Len(t) = 2 /\ IsHex(toUpperCase(t)[1]) /\ IsHex(toUpperCase(t)[2])

\* the five characters of a trouble code built from its two bytes
formatDTCCode(byte1, byte2) ==
  <<(<<"P", "C", "B", "U">>)[((byte1 \div 64) % 4) + 1],
    HexDigits[((byte1 \div 16) % 4) + 1],
    HexDigits[(byte1 % 16) + 1],
    HexDigits[(byte2 \div 16) + 1],
    HexDigits[(byte2 % 16) + 1]>>

\* parseDTCResponse(rawResponse, isPending)
parseDTCResponse(rawResponse, isPending) ==
  LET cleaned == trim(replaceNewlines(stripPrompt(rawResponse)))
      tokens == SelectSeq(SplitWhitespace(cleaned), IsHexToken)
      allBytes == [k \in 1..Len(tokens) |-> parseInt16(toUpperCase(tokens[k]))]
      responseHeader == IF isPending THEN 71 ELSE 67
      hits == {i \in 1..Len(allBytes) : allBytes[i] = responseHeader}
      headerIndex == CHOOSE i \in hits : \A j \in hits : i <= j
      npairs == (Len(allBytes) - headerIndex) \div 2
      pairs == [k \in 1..npairs |->
                  <<allBytes[headerIndex + 2 * k - 1], allBytes[headerIndex + 2 * k]>>]
      kept == SelectSeq(pairs, LAMBDA pr : ~(pr[1] = 0 /\ pr[2] = 0))
  IN IF \/ includes(cleaned, Chars["NO DATA"])
        \/ includes(cleaned, Chars["ERROR"])
        \/ trim(cleaned) = <<>>
       THEN <<>>
     ELSE IF hits = {} THEN <<>>
     ELSE [k \in 1..Len(kept) |->
             [code |-> formatDTCCode(kept[k][1], kept[k][2]), isPending |-> isPending]]

(***************************************************************************)
(* State.                                                                  *)
(***************************************************************************)
MaxStarts == 2

\* the id lists the callers hand to startPolling
PollLists ==
  { <<>>,
    <<"TOYOTA_HV_VOLTAGE", "PC_7E2_2181_V01", "010D", "010d">> }

\* what the adapter may answer
DeviceReplies ==
  { Chars["6181 0A 0B"], Chars["410D3C"], Chars["NO DATA"] }

NoHandle == 0
ChainIds == 1..MaxStarts

VARIABLES
  isPolling,         \* OBDProtocol.isPolling
  pollingTimer,      \* OBDProtocol.pollingTimer: a chain's timer handle or NoHandle
  currentTxHeader,   \* OBDProtocol.currentTxHeader; <<>> is null
  connectedDevice,   \* transport: connectedDevice !== null
  connectionState,   \* transport: connectionState
  readSubscription,  \* transport: readSubscription !== null
  responseResolve,   \* transport: the caller whose resolve/reject is stored
  responseTimer,     \* transport: the caller whose timeout handle is stored
  responseTimers,    \* response timeouts that are pending
  pollTimers,        \* chains whose setTimeout(pollCycle) is pending
  nChains,           \* pollCycle closures created so far
  chains,            \* per closure: pids, groups, position, pending sendCommand
  devCmd,            \* the command the adapter is working on
  emitted,           \* callbacks invoked by the last step
  issued,            \* sendCommand calls made by the last step
  written,           \* commands written to the device by the last step
  op,                \* the direct operation (readPid, querySupportedPids, ...) in progress
  sessionId,         \* ObdClient.sessionId
  attempts,          \* ObdClient: the connect/startDemoMode/disconnect calls and their position
  clientTransport,   \* ObdClient.transport: created, whose connection it holds, its state
  clientProtocol,    \* ObdClient.protocol: the attempt that created it, or NoHandle
  protocols,         \* the OBDProtocol objects the attempts created
  connStore,         \* useConnectionStore
  obdStore,          \* useOBDStore
  mockRunning,       \* mockDataProvider is started
  effects,           \* ObdClient: the side effects of the last step
  pure,              \* the pure function under evaluation: its input and result
  lastHeaderSent,    \* the header of the last header-set command written; <<>> is none
  unanswered,        \* the written commands the adapter has not answered, oldest first
  called,            \* per closure: the ids its callback was invoked for in this cycle
  elm,               \* an Elm327 object: ready, and the calls made on it
  logw               \* the LogWriter, its timers, its calls and the database

vars == <<isPolling, pollingTimer, currentTxHeader, connectedDevice,
          connectionState, readSubscription, responseResolve, responseTimer,
          responseTimers, pollTimers, nChains, chains, devCmd, emitted,
          issued, written, op, sessionId, attempts, clientTransport,
          clientProtocol, protocols, connStore, obdStore, mockRunning, effects, pure,
          lastHeaderSent, unanswered, called, elm, logw>>

clientVars == <<sessionId, attempts, clientTransport, clientProtocol, protocols,
                connStore, obdStore, mockRunning, effects>>
protocolVars == <<isPolling, pollingTimer, currentTxHeader>>
\* what is kept beside the engine, the transport and the client
serviceVars == <<lastHeaderSent, unanswered, called, elm, logw>>
transportVars == <<connectedDevice, connectionState, readSubscription,
                   responseResolve, responseTimer, responseTimers>>

NoChain ==
  [pids |-> <<>>, groups |-> <<>>, pc |-> "none", gi |-> 0, stage |-> "none",
   cmd |-> <<>>, result |-> <<>>]

\* a closure whose pollCycle has returned without arming a timer: nothing
\* refers to it any more
Returned == [NoChain EXCEPT !.pc = "done"]

\* no pure function is under evaluation
NoPure == [fn |-> "none"]

\* no direct operation has been called
NoOp ==
  [fn |-> "none", arg |-> "", pc |-> "none", qi |-> 0, outcome |-> "none",
   error |-> "none", supported |-> <<>>, results |-> <<>>, value |-> <<>>,
   cleared |-> FALSE, log |-> <<>>]

\* no call has been made on the Elm327
NoElmCall ==
  [fn |-> "none", pc |-> "none", ii |-> 0, readyAtCall |-> FALSE, sent |-> <<>>,
   replies |-> <<>>, result |-> "none"]

\* a freshly constructed Elm327: ready = false
NewElm327 ==
  [ready |-> FALSE, calls |-> <<>>, finished |-> <<>>]

\* no batch insert is in flight
NoFlush == [batch |-> <<>>, sid |-> NoHandle, by |-> NoHandle]

\* the LogWriter singleton after construction, and an empty database:
\* sessionId, buffer, flushInterval and flushing are its fields (NoHandle is
\* null); timers are the intervals that are set, sessions the rows of the
\* sessions table with their data points, flush the insert in flight, calls
\* the startSession and stopSession calls, added the points addDataPoint
\* buffered and the session each was added to
NewLogWriter ==
  [sessionId |-> NoHandle, buffer |-> <<>>, flushInterval |-> NoHandle,
   flushing |-> FALSE, timers |-> {}, nTimers |-> NoHandle, sessions |-> <<>>,
   flush |-> NoFlush, calls |-> <<>>, added |-> <<>>]

\* a freshly constructed OBDProtocol on a connected transport
EngineInit ==
  /\ isPolling = FALSE
  /\ pollingTimer = NoHandle
  /\ currentTxHeader = <<>>
  /\ connectedDevice = TRUE
  /\ connectionState = "connected"
  /\ readSubscription = TRUE
  /\ responseResolve = NoHandle
  /\ responseTimer = NoHandle
  /\ responseTimers = {}
  /\ pollTimers = {}
  /\ nChains = 0
  /\ chains = [c \in ChainIds |-> NoChain]
  /\ devCmd = <<>>
  /\ emitted = <<>>
  /\ issued = <<>>
  /\ written = <<>>
  /\ lastHeaderSent = <<>>
  /\ unanswered = <<>>
  /\ called = [c \in ChainIds |-> <<>>]
  /\ elm = NewElm327
  /\ logw = NewLogWriter

MaxSessions == 2
SessionIds == 1..MaxSessions

\* a call that has not been made yet
NoAttempt == [kind |-> "none", pc |-> "none", reset |-> FALSE, ii |-> 0, log |-> <<>>]

\* ids the polling callback is invoked for (they are in every list connect
\* polls) and the results it is invoked with: <<>> is null, else <<value, raw>>
CallbackIds == {"010C", "0105"}
CallbackResults == { <<>>, <<1, "41 0C 00 04">> }

\* a freshly constructed ObdClient and the initial state of the stores
ClientInit ==
  /\ sessionId = 0
  /\ attempts = [a \in SessionIds |-> NoAttempt]
  /\ clientTransport = [made |-> FALSE, device |-> NoHandle, state |-> "disconnected",
                        onDisconnect |-> FALSE]
  /\ clientProtocol = NoHandle
  /\ protocols = [a \in SessionIds |-> "none"]
  /\ connStore = [state |-> "disconnected", device |-> "null", isElm327Ready |-> FALSE,
                  error |-> "null", demoMode |-> FALSE]
  /\ obdStore = [pollingActive |-> FALSE, data |-> [pid \in CallbackIds |-> <<>>]]
  /\ mockRunning = FALSE
  /\ effects = <<>>

Init == pure = NoPure /\ op = NoOp /\ EngineInit /\ ClientInit

\* a settled promise whose continuation has not run yet
MicrotaskPending == \E c \in ChainIds : chains[c].stage \in {"ok", "err"}

(***************************************************************************)
(* Transport: sendCommand, synchronous part.                               *)
(***************************************************************************)
\* the three guards of sendCommand
SendGuards ==
  /\ connectedDevice
  /\ connectionState = "connected"
  /\ responseResolve = NoHandle

\* sendCommand(cmd) called by chain record ch: suspended at clear(), or rejected
sendCommand(ch, cmd) ==
  [ch EXCEPT !.stage = IF SendGuards THEN "clear" ELSE "err",
             !.cmd = cmd, !.result = <<>>]

(***************************************************************************)
(* OBDProtocol: the polling cycle, from one suspension point to the next.  *)
(* The operators return [ch, timer, issued]: the chain record, whether    *)
(* setTimeout(pollCycle) was called, and the sendCommand call made.        *)
(***************************************************************************)
\* ensureTxHeader without the comparison with the cached header
NeedsHeaderCommandAlways(desired) == desired # <<>>

\* ensureTxHeader decides to transmit ATSH
NeedsHeaderCommand(desired) == desired # <<>> /\ currentTxHeader # desired

\* the data request of group g: sendCommand(formatObdCommand(group.request))
SendRequest(c, ch, g) ==
  LET cmd == formatObdCommand(ch.groups[g].request)
  IN [ch |-> [sendCommand(ch, cmd) EXCEPT !.pc = "req", !.gi = g],
      timer |-> FALSE,
      issued |-> <<[chain |-> c, gi |-> g, kind |-> "req", cmd |-> cmd]>>]

\* the header step of group g: ensureTxHeader(group.header), then the request
SendHeader(c, ch, g) ==
  LET desired == DesiredHeader(ch.groups[g].header)
      cmd == Chars["ATSH "] \o desired
  IN IF NeedsHeaderCommand(desired)
       THEN [ch |-> [sendCommand(ch, cmd) EXCEPT !.pc = "hdr", !.gi = g],
             timer |-> FALSE,
             issued |-> <<[chain |-> c, gi |-> g, kind |-> "hdr", cmd |-> cmd]>>]
       ELSE SendRequest(c, ch, g)

\* a loop that ends one group early
CycleCompleteEarly(ch, g) == g >= Len(ch.groups)

\* the timer for the next cycle is armed once the loop has passed the last group
CycleComplete(ch, g) == g > Len(ch.groups)

\* the for loop at group g, with polling flag p
NextGroup(c, ch, g, p) ==
  IF CycleComplete(ch, g)
    THEN [ch |-> IF p THEN [ch EXCEPT !.pc = "sleep", !.gi = 0, !.stage = "none",
                                      !.cmd = <<>>, !.result = <<>>]
                      ELSE Returned,
          timer |-> p, issued |-> <<>>]
  ELSE IF ~p
    THEN [ch |-> Returned, timer |-> FALSE, issued |-> <<>>]
  ELSE SendHeader(c, ch, g)

\* pollCycle(), entered from startPolling or from its timer
pollCycle(c, ch, p) == NextGroup(c, ch, 1, p)

\* callback(id, null, err) for every id of the group
ErrorCallbacks(c, group) ==
  [k \in 1..Len(group.ids) |->
     [chain |-> c, id |-> group.ids[k], ok |-> FALSE, bytes |-> <<>>, raw |-> <<>>]]

\* a loop over the ids that passes over an id without a definition
DecodeCallbacksKnownOnly(c, group, raw, bytes) ==
  LET known == SelectSeq(group.ids, IsKnown)
  IN [k \in 1..Len(known) |->
        [chain |-> c, id |-> known[k], ok |-> TRUE, bytes |-> bytes, raw |-> raw]]

\* the callbacks of a group whose reply carried a payload
DecodeCallbacks(c, group, raw, bytes) ==
  [k \in 1..Len(group.ids) |->
     IF IsKnown(group.ids[k])
       THEN [chain |-> c, id |-> group.ids[k], ok |-> TRUE, bytes |-> bytes, raw |-> raw]
       ELSE [chain |-> c, id |-> group.ids[k], ok |-> FALSE, bytes |-> <<>>, raw |-> <<>>]]

\* a cache that is written before the header-set command has succeeded
HeaderAfterSettleEager(stage, desired) == desired

\* the cached header after the header-set command of `desired` settled
HeaderAfterSettle(stage, desired) ==
  IF stage = "ok" THEN desired ELSE currentTxHeader

\* a failure that escapes the loop and ends the cycle
AfterFailureAbort(c, ch, g, p) ==
  [ch |-> Returned, timer |-> FALSE, issued |-> <<>>]

\* a failure after which the same group is tried again
AfterFailureRetry(c, ch, g, p) == NextGroup(c, ch, g, p)

\* the loop continues with the next group after a group has failed
AfterFailure(c, ch, g, p) == NextGroup(c, ch, g + 1, p)

(***************************************************************************)
(* Actions.                                                                *)
(***************************************************************************)
\* the effect of a run r = [ch, timer, issued] of chain c on the engine
ApplyRun(c, r, chainsBefore, timersBefore, handleBefore) ==
  /\ chains' = [chainsBefore EXCEPT ![c] = r.ch]
  /\ pollTimers' = IF r.timer THEN timersBefore \cup {c} ELSE timersBefore
  /\ pollingTimer' = IF r.timer THEN c ELSE handleBefore
  /\ issued' = r.issued

\* clearTimeout(this.pollingTimer): the closure whose timer is cancelled
\* never runs again
CancelTimer(chs) ==
  IF pollingTimer \in pollTimers THEN [chs EXCEPT ![pollingTimer] = Returned] ELSE chs

\* OBDProtocol.startPolling(pids, intervalMs, callback)
StartPolling(pids) ==
  LET chainsBefore == IF isPolling THEN CancelTimer(chains) ELSE chains
      timersBefore == IF isPolling THEN pollTimers \ {pollingTimer} ELSE pollTimers
      handleBefore == IF isPolling THEN NoHandle ELSE pollingTimer
      c == nChains + 1
  IN /\ ~MicrotaskPending
     /\ IF pids = <<>>
          THEN /\ isPolling' = FALSE
               /\ chains' = chainsBefore
               /\ pollTimers' = timersBefore
               /\ pollingTimer' = handleBefore
               /\ issued' = <<>>
               /\ UNCHANGED nChains
          ELSE /\ nChains < MaxStarts
               /\ isPolling' = TRUE
               /\ nChains' = c
               /\ ApplyRun(c, pollCycle(c, [NoChain EXCEPT !.pids = pids,
                                                            !.groups = BuildGroups(pids)],
                                        TRUE),
                           chainsBefore, timersBefore, handleBefore)
     /\ emitted' = <<>>
     /\ written' = <<>>
     /\ UNCHANGED <<pure, op, clientVars, serviceVars, currentTxHeader, transportVars, devCmd>>

\* OBDProtocol.stopPolling()
StopPolling ==
  /\ ~MicrotaskPending
  /\ isPolling' = FALSE
  /\ chains' = CancelTimer(chains)
  /\ pollTimers' = pollTimers \ {pollingTimer}
  /\ pollingTimer' = NoHandle
  /\ emitted' = <<>>
  /\ issued' = <<>>
  /\ written' = <<>>
  /\ UNCHANGED <<pure, op, clientVars, serviceVars, currentTxHeader, transportVars, nChains, devCmd>>

\* the timer of chain c fires: pollCycle()
PollTimerFires(c) ==
  /\ ~MicrotaskPending
  /\ c \in pollTimers
  /\ ApplyRun(c, pollCycle(c, chains[c], isPolling), chains, pollTimers \ {c}, pollingTimer)
  /\ emitted' = <<>>
  /\ written' = <<>>
  /\ UNCHANGED <<pure, op, clientVars, serviceVars, isPolling, currentTxHeader, transportVars, nChains, devCmd>>

\* the continuation of pollCycle after the promise it awaits has settled
Continue(c) ==
  LET ch == chains[c]
      group == ch.groups[ch.gi]
      bytes == parseResponseBytes(ch.result, group.request)
      failed == ch.stage = "err" \/ (ch.pc = "req" /\ bytes = <<>>)
  IN /\ ch.stage \in {"ok", "err"}
     /\ IF ch.pc = "hdr"
          THEN currentTxHeader' = HeaderAfterSettle(ch.stage, DesiredHeader(group.header))
          ELSE currentTxHeader' = currentTxHeader
     /\ IF failed
          THEN /\ emitted' = ErrorCallbacks(c, group)
               /\ ApplyRun(c, AfterFailure(c, ch, ch.gi, isPolling), chains, pollTimers, pollingTimer)
          ELSE IF ch.pc = "hdr"
            THEN /\ emitted' = <<>>
                 /\ ApplyRun(c, SendRequest(c, ch, ch.gi), chains, pollTimers, pollingTimer)
            ELSE /\ emitted' = DecodeCallbacks(c, group, ch.result, bytes)
                 /\ ApplyRun(c, NextGroup(c, ch, ch.gi + 1, isPolling), chains, pollTimers, pollingTimer)
     /\ written' = <<>>
     /\ UNCHANGED <<pure, op, clientVars, isPolling, transportVars, nChains, devCmd>>

Resume(c) == Continue(c) /\ UNCHANGED serviceVars

\* the same step, with the ids of its callbacks noted; the note is cleared
\* when the closure leaves the loop
ResumeNoted(c) ==
  /\ Continue(c)
  /\ called' = [called EXCEPT ![c] =
                  IF chains'[c].pc \in {"sleep", "done"} THEN <<>>
                  ELSE @ \o [k \in 1..Len(emitted') |-> emitted'[k].id]]
  /\ UNCHANGED <<lastHeaderSent, unanswered, elm, logw>>

\* transport: `await this.connectedDevice.clear()` returns, write() is called
ClearReturns(c) ==
  /\ ~MicrotaskPending
  /\ chains[c].stage = "clear"
  /\ IF connectedDevice
       THEN /\ chains' = [chains EXCEPT ![c].stage = "write"]
            /\ written' = <<[by |-> c, cmd |-> chains[c].cmd]>>
       ELSE /\ chains' = [chains EXCEPT ![c].stage = "err"]
            /\ written' = <<>>
  /\ emitted' = <<>>
  /\ issued' = <<>>
  /\ UNCHANGED <<pure, op, clientVars, protocolVars, transportVars, pollTimers, nChains,
                 devCmd>>

ClearDone(c) == ClearReturns(c) /\ UNCHANGED serviceVars

\* the same step, with the header of a header-set command it writes noted
ClearDoneNoted(c) ==
  /\ ClearReturns(c)
  /\ lastHeaderSent' =
       IF connectedDevice /\ chains[c].pc = "hdr"
         THEN SubSeq(chains[c].cmd, Len(Chars["ATSH "]) + 1, Len(chains[c].cmd))
         ELSE lastHeaderSent
  /\ UNCHANGED <<unanswered, called, elm, logw>>

\* transport: `await write()` returns; on success the reply promise is created
WriteReturns(c, ok) ==
  /\ ~MicrotaskPending
  /\ chains[c].stage = "write"
  /\ IF ok
       THEN /\ chains' = [chains EXCEPT ![c].stage = "wait"]
            /\ responseResolve' = c
            /\ responseTimer' = c
            /\ responseTimers' = responseTimers \cup {c}
            /\ devCmd' = <<chains[c].cmd>>
       ELSE /\ chains' = [chains EXCEPT ![c].stage = "err"]
            /\ UNCHANGED <<responseResolve, responseTimer, responseTimers, devCmd>>
  /\ emitted' = <<>>
  /\ issued' = <<>>
  /\ written' = <<>>
  /\ UNCHANGED <<pure, op, clientVars, protocolVars, connectedDevice, connectionState,
                 readSubscription, pollTimers, nChains>>

WriteDone(c, ok) == WriteReturns(c, ok) /\ UNCHANGED serviceVars

\* message.replace(/>/g, '').replace(/\u0000/g, '').trim()
CleanMessage(message) == trim(stripPrompt(message))

\* transport: handleIncomingMessage(message), the adapter answered devCmd.
\* ensureTxHeader drops the value its sendCommand resolves with, so the reply
\* to a header-set command is not kept.
handleIncomingMessage(message) ==
  /\ ~MicrotaskPending
  /\ readSubscription
  /\ devCmd # <<>>
  /\ devCmd' = <<>>
  /\ IF responseResolve # NoHandle
       THEN /\ responseTimers' = responseTimers \ {responseTimer}
            /\ responseTimer' = NoHandle
            /\ responseResolve' = NoHandle
            /\ chains' = [chains EXCEPT ![responseResolve].stage = "ok",
                                        ![responseResolve].result =
                                          IF chains[responseResolve].pc = "hdr"
                                            THEN <<>> ELSE CleanMessage(message)]
       ELSE UNCHANGED <<responseTimers, responseTimer, responseResolve, chains>>
  /\ emitted' = <<>>
  /\ issued' = <<>>
  /\ written' = <<>>
  /\ UNCHANGED <<pure, op, clientVars, protocolVars, connectedDevice, connectionState,
                 readSubscription, pollTimers, nChains>>

DeviceReply(message) == handleIncomingMessage(message) /\ UNCHANGED serviceVars

ClearPendingResponseSilently(chs) ==
  chs

\* clearPendingResponse(reason): the chains after the stored reject was called
ClearPendingResponse(chs) ==
  IF responseResolve # NoHandle
    THEN [chs EXCEPT ![responseResolve].stage = "err"]
    ELSE chs

\* transport: the response timeout of caller c fires
TimeoutFires(c) ==
  /\ ~MicrotaskPending
  /\ c \in responseTimers
  /\ responseTimers' = (responseTimers \ {c}) \ {responseTimer}
  /\ responseTimer' = NoHandle
  /\ responseResolve' = NoHandle
  /\ chains' = [d \in ChainIds |->
                  IF d = c /\ chains[d].stage = "wait"
                    THEN [chains[d] EXCEPT !.stage = "err"]
                    ELSE ClearPendingResponse(chains)[d]]
  /\ emitted' = <<>>
  /\ issued' = <<>>
  /\ written' = <<>>
  /\ UNCHANGED <<pure, op, clientVars, protocolVars, connectedDevice, connectionState,
                 readSubscription, pollTimers, nChains, devCmd>>

ResponseTimeout(c) == TimeoutFires(c) /\ UNCHANGED serviceVars

\* transport: handleUnexpectedDisconnect()
UnexpectedDisconnect ==
  /\ ~MicrotaskPending
  /\ readSubscription
  /\ readSubscription' = FALSE
  /\ responseTimers' = responseTimers \ {responseTimer}
  /\ responseTimer' = NoHandle
  /\ responseResolve' = NoHandle
  /\ chains' = ClearPendingResponse(chains)
  /\ connectedDevice' = FALSE
  /\ connectionState' = "disconnected"
  /\ emitted' = <<>>
  /\ issued' = <<>>
  /\ written' = <<>>
  /\ UNCHANGED <<pure, op, clientVars, serviceVars, protocolVars, pollTimers, nChains, devCmd>>

Next ==
  \/ \E pids \in PollLists : StartPolling(pids)
  \/ StopPolling
  \/ \E c \in ChainIds : PollTimerFires(c)
  \/ \E c \in ChainIds : Resume(c)
  \/ \E c \in ChainIds : ClearDone(c)
  \/ \E c \in ChainIds, ok \in BOOLEAN : WriteDone(c, ok)
  \/ \E message \in DeviceReplies : DeviceReply(message)
  \/ \E c \in ChainIds : ResponseTimeout(c)
  \/ UnexpectedDisconnect

Spec == Init /\ [][Next]_vars

(***************************************************************************)
(* startPolling's grouping as a function of the id list.                   *)
(***************************************************************************)
MaxLen == 3

\* ids callers may ask for: registry ids and ids the registry does not have
GroupingIds ==
  {"TOYOTA_HV_VOLTAGE", "PC_7E2_2181_V01", "TOYOTA_CABIN_TEMP", "010D", "010d"}

SeqsUpTo(S, n) == UNION {[1..k -> S] : k \in 0..n}

GroupingInit ==
  /\ EngineInit
  /\ ClientInit
  /\ op = NoOp
  /\ pure \in {[fn |-> "BuildGroups", pids |-> pids, groups |-> <<>>, done |-> FALSE] :
                 pids \in SeqsUpTo(GroupingIds, MaxLen)}

\* the grouping loop of startPolling runs on the list
RunGrouping ==
  /\ pure.fn = "BuildGroups"
  /\ ~pure.done
  /\ pure' = [pure EXCEPT !.groups = BuildGroups(pure.pids), !.done = TRUE]
  /\ UNCHANGED <<protocolVars, transportVars, pollTimers, nChains, chains, devCmd,
                 emitted, issued, written, op, clientVars, serviceVars>>

GroupingNext == RunGrouping

GroupingSpec == GroupingInit /\ [][GroupingNext]_vars

(***************************************************************************)
(* The response parsers as functions of the adapter's reply.               *)
(***************************************************************************)
MaxTokens == 4

\* pieces adapter replies are made of: bytes, a separator, digits that shift
\* the pairing, error text and a multi-byte echo
ReplyTokens ==
  { <<"4", "1">>, <<"0", "C">>, <<"1", "A">>, <<" ">>, <<"4">>, <<"c">>, <<"?">>,
    <<"6", "2", "0", "1", "3", "8">> }

\* the concatenation of a sequence of strings
RECURSIVE Concat(_)
Concat(parts) == IF parts = <<>> THEN <<>> ELSE Head(parts) \o Concat(Tail(parts))

\* complete replies, with and without spaces, prompt and error text
WholeReplies ==
  { Chars["41 0C 1A F8"], Chars["62 01 38 7D"], Chars["NO DATA"], Chars["ERROR"],
    Chars["UNABLE TO CONNECT"], Chars["41 0C 1A F8"] \o <<"\r", ">">>,
    <<"\r">> \o Chars["410D3C"] \o Chars["41 0C 1A F8"] }

\* the requests the replies are parsed for
ParsedRequests == {Chars["010C"], Chars["220138"], <<"0", "1", " ", "0", "c">>}

\* the frames of a trouble-code reply: service byte, then data bytes
DtcFrames ==
  { <<67, 1, 3, 1>>, <<67, 1, 3>>, <<71, 2, 4>>, <<71, 1, 130, 52>>, <<67, 0, 0>>, <<67>> }

\* the adapter prints a frame as hex pairs, separated by spaces unless ATS0
\* has switched them off
AdapterFormat(bytes, spaces) ==
  Concat([k \in 1..Len(bytes) |->
            IF spaces /\ k > 1 THEN <<" ">> \o toHex2(bytes[k]) ELSE toHex2(bytes[k])])

ParserInit ==
  /\ EngineInit
  /\ ClientInit
  /\ op = NoOp
  /\ pure \in
       {[fn |-> "parseResponseBytes", raw |-> raw, request |-> request,
         bytes |-> <<>>, done |-> FALSE] :
          raw \in {Concat(parts) : parts \in SeqsUpTo(ReplyTokens, MaxTokens)}
                    \cup WholeReplies,
          request \in ParsedRequests}
       \cup
       {[fn |-> "parseDTCResponse", frame |-> frame, isPending |-> isPending,
         spaced |-> <<>>, compact |-> <<>>, done |-> FALSE] :
          frame \in DtcFrames, isPending \in BOOLEAN}

\* parseResponseBytes runs on the reply
RunParse ==
  /\ pure.fn = "parseResponseBytes"
  /\ ~pure.done
  /\ pure' = [pure EXCEPT !.bytes = parseResponseBytes(pure.raw, pure.request),
                          !.done = TRUE]
  /\ UNCHANGED <<protocolVars, transportVars, pollTimers, nChains, chains, devCmd,
                 emitted, issued, written, op, clientVars, serviceVars>>

\* parseDTCResponse runs on the frame as printed with and without spaces
RunParseDTC ==
  /\ pure.fn = "parseDTCResponse"
  /\ ~pure.done
  /\ pure' = [pure EXCEPT
                !.spaced = parseDTCResponse(AdapterFormat(pure.frame, TRUE), pure.isPending),
                !.compact = parseDTCResponse(AdapterFormat(pure.frame, FALSE), pure.isPending),
                !.done = TRUE]
  /\ UNCHANGED <<protocolVars, transportVars, pollTimers, nChains, chains, devCmd,
                 emitted, issued, written, op, clientVars, serviceVars>>

ParserNext == RunParse \/ RunParseDTC

ParserSpec == ParserInit /\ [][ParserNext]_vars

(***************************************************************************)
(* OBDProtocol: the direct operations (querySupportedPids, readPid,        *)
(* readDTCs, clearDTCs) over the same transport.  One operation runs at a  *)
(* time; its sendCommand call uses the caller slot OpCaller.               *)
(***************************************************************************)
OpCaller == 1

\* the ids readPid is called with: registry ids and one the registry lacks
ReadPidArgs == {"010D", "TOYOTA_HV_VOLTAGE", "010d"}

\* what the adapter may answer to a direct operation
DirectReplies ==
  { Chars["41 00 BE 1F A8 13"], Chars["41 00 80 00 00 00"], Chars["41 20 80 00 00 01"],
    Chars["41 20 80 00 00 00"], Chars["NO DATA"], Chars["43 01 03"], Chars["47 02 04"], Chars["41 0D 3C"],
    Chars["44"] }

\* elm327.isConnected() of a transport that always says yes
isConnectedAlways == TRUE

\* elm327.isConnected()
isConnected == connectedDevice /\ connectionState = "connected"

\* a registry lookup that never fails
UnknownSignalIgnored(fn, arg) == FALSE

\* readPid: `if (!definition) throw`
UnknownSignal(fn, arg) == fn = "readPid" /\ ~IsKnown(arg)

\* the operation settles: [op, send] with nothing to send
OpSettle(o, outcome, error) ==
  [op |-> [o EXCEPT !.pc = "done", !.outcome = outcome, !.error = error],
   send |-> <<>>]

\* the operation calls sendCommand(cmd) and suspends at position pc
OpSend(o, pc, cmd) ==
  [op |-> [o EXCEPT !.pc = pc,
                    !.log = Append(@, [cmd |-> cmd, state |-> "pending", raw |-> <<>>])],
   send |-> <<cmd>>]

\* querySupportedPids: the for loop at query qi
QueryLoop(o, qi) ==
  IF qi > Len(SUPPORTED_PID_QUERIES)
    THEN OpSettle(o, "resolved", "none")
    ELSE OpSend([o EXCEPT !.qi = qi], "query",
                formatObdCommand(Chars[SUPPORTED_PID_QUERIES[qi]]))

\* the header argument of the operation's ensureTxHeader call
OpHeaderOf(o) == IF o.fn = "readPid" THEN HeaderOf(o.arg) ELSE DEFAULT_TX_HEADER

\* what follows a completed ensureTxHeader
AfterHeader(o) ==
  CASE o.fn = "querySupportedPids" -> QueryLoop(o, 1)
    [] o.fn = "readPid" -> OpSend(o, "req", formatObdCommand(RequestOf(o.arg)))
    [] o.fn = "readDTCs" -> OpSend(o, "03", Chars["03"])
    [] o.fn = "clearDTCs" -> OpSend(o, "04", Chars["04"])

\* ensureTxHeader(header) called by the operation
OpEnsureHeader(o) ==
  LET desired == DesiredHeader(OpHeaderOf(o))
  IN IF NeedsHeaderCommand(desired)
       THEN OpSend(o, "hdr", Chars["ATSH "] \o desired)
       ELSE AfterHeader(o)

\* the synchronous start of fn(arg)
OpEntry(fn, arg) ==
  LET o == [NoOp EXCEPT !.fn = fn, !.arg = arg, !.pc = "entry", !.outcome = "pending"]
  IN IF ~isConnected THEN OpSettle(o, "rejected", "not connected")
     ELSE IF UnknownSignal(fn, arg) THEN OpSettle(o, "rejected", "unknown pid")
     ELSE OpEnsureHeader(o)

\* a probe that never ends on the next-range bit
RangeEndsNever(pids, query) == FALSE

\* `if (!pids.includes(nextQuery)) break`
RangeEnds(pids, query) == ~SeqIncludes(pids, NextRangeQuery(query))

\* querySupportedPids: a range query was answered with raw
QueryReplied(o, raw) ==
  LET query == Chars[SUPPORTED_PID_QUERIES[o.qi]]
      bytes == parseResponseBytes(raw, query)
      pids == decodeSupportedPids(query, bytes)
      o1 == [o EXCEPT !.supported = @ \o pids]
  IN IF Len(bytes) >= 4
       THEN IF RangeEnds(pids, query)
              THEN OpSettle(o1, "resolved", "none")
              ELSE QueryLoop(o1, o.qi + 1)
       ELSE QueryLoop(o, o.qi + 1)

\* readPid: its data request was answered with raw
ReadPidReplied(o, raw) ==
  LET bytes == parseResponseBytes(raw, RequestOf(o.arg))
  IN IF bytes = <<>>
       THEN OpSettle(o, "rejected", "no data")
       ELSE OpSettle([o EXCEPT !.value = <<[decode |-> allPidDefinitions[o.arg].decode,
                                            bytes |-> bytes, raw |-> raw]>>],
                     "resolved", "none")

\* a stored-codes failure that escapes readDTCs
AfterStoredFailureAbort(o) == OpSettle(o, "rejected", "transport")

\* readDTCs: the Mode 03 request rejected; the catch block is empty
AfterStoredFailure(o) == OpSend(o, "07", Chars["07"])

\* the continuation of the operation after its sendCommand settled
OpContinue(o, stage, raw) ==
  LET ok == stage = "ok"
  IN CASE o.pc = "hdr" ->
            IF ok THEN AfterHeader(o)
            ELSE IF o.fn = "clearDTCs"
              THEN OpSettle([o EXCEPT !.cleared = FALSE], "resolved", "none")
            ELSE OpSettle(o, "rejected", "transport")
       [] o.pc = "query" ->
            IF ok THEN QueryReplied(o, raw) ELSE OpSettle(o, "resolved", "none")
       [] o.pc = "req" ->
            IF ok THEN ReadPidReplied(o, raw) ELSE OpSettle(o, "rejected", "transport")
       [] o.pc = "03" ->
            IF ok
              THEN OpSend([o EXCEPT !.results = @ \o parseDTCResponse(raw, FALSE)],
                          "07", Chars["07"])
              ELSE AfterStoredFailure(o)
       [] o.pc = "07" ->
            OpSettle(IF ok THEN [o EXCEPT !.results = @ \o parseDTCResponse(raw, TRUE)]
                           ELSE o,
                     "resolved", "none")
       [] o.pc = "04" ->
            OpSettle([o EXCEPT !.cleared = ok /\ includes(raw, Chars["44"])],
                     "resolved", "none")

\* the effect of a run r = [op, send] of the operation on the engine
ApplyOp(r) ==
  /\ op' = r.op
  /\ chains' = [chains EXCEPT ![OpCaller] =
                  IF r.send = <<>> THEN NoChain
                  ELSE [sendCommand(NoChain, r.send[1]) EXCEPT !.pc = "op"]]
  /\ issued' = [k \in 1..Len(r.send) |->
                  [chain |-> OpCaller, gi |-> 0, kind |-> "op", cmd |-> r.send[k]]]
  /\ emitted' = <<>>
  /\ written' = <<>>

\* a caller invokes querySupportedPids(), readPid(arg), readDTCs() or clearDTCs()
CallOp(fn, arg) ==
  /\ ~MicrotaskPending
  /\ op.pc \in {"none", "done"}
  /\ ApplyOp(OpEntry(fn, arg))
  /\ UNCHANGED <<pure, clientVars, serviceVars, protocolVars, transportVars, pollTimers, nChains, devCmd>>

\* the operation resumes after the promise it awaits has settled
ResumeOp ==
  LET ch == chains[OpCaller]
      o == [op EXCEPT !.log[Len(op.log)] =
                        [cmd |-> @.cmd, state |-> ch.stage, raw |-> ch.result]]
  IN /\ ch.pc = "op"
     /\ ch.stage \in {"ok", "err"}
     /\ currentTxHeader' = IF op.pc = "hdr"
                             THEN HeaderAfterSettle(ch.stage, DesiredHeader(OpHeaderOf(op)))
                             ELSE currentTxHeader
     /\ ApplyOp(OpContinue(o, ch.stage, ch.result))
     /\ UNCHANGED <<pure, clientVars, serviceVars, isPolling, pollingTimer, transportVars, pollTimers, nChains,
                    devCmd>>

DirectInit == pure = NoPure /\ op = NoOp /\ EngineInit /\ ClientInit

DirectNext ==
  \/ CallOp("querySupportedPids", "")
  \/ \E arg \in ReadPidArgs : CallOp("readPid", arg)
  \/ CallOp("readDTCs", "")
  \/ CallOp("clearDTCs", "")
  \/ ResumeOp
  \/ \E c \in ChainIds : ClearDone(c)
  \/ \E c \in ChainIds, ok \in BOOLEAN : WriteDone(c, ok)
  \/ \E message \in DirectReplies : DeviceReply(message)
  \/ \E c \in ChainIds : ResponseTimeout(c)
  \/ UnexpectedDisconnect

DirectSpec == DirectInit /\ [][DirectNext]_vars

(***************************************************************************)
(* ObdClient: connect, startDemoMode and disconnect.  A call is an attempt *)
(* numbered by the sessionId it set; it runs from one await to the next.   *)
(* transport.connect, Elm327.initialize, querySupportedPids and            *)
(* transport.disconnect are awaited operations that settle; other calls    *)
(* may run while an attempt is suspended.  The steps work on a record w of *)
(* the client's state and append to w.effects.                             *)
(***************************************************************************)
DEFAULT_PIDS == <<"010C", "010D", "0105", "0111", "0146", "0110", "015E">>

INIT_COMMANDS_EchoFirst == <<"ATE0", "ATZ", "ATL0", "ATS0", "ATH0", "ATSP0">>

\* Elm327: the commands initialize() sends, one after the other
INIT_COMMANDS == <<"ATZ", "ATE0", "ATL0", "ATS0", "ATH0", "ATSP0">>

\* what querySupportedPids may resolve with
SupportAnswers == { <<>>, <<"0121">>, <<"0105", "010C", "0121">> }

engineVars == <<protocolVars, transportVars, pollTimers, nChains, chains, devCmd,
                emitted, issued, written, op, pure>>

World ==
  [sessionId |-> sessionId, transport |-> clientTransport, protocol |-> clientProtocol,
   protocols |-> protocols, connStore |-> connStore, obdStore |-> obdStore,
   mock |-> mockRunning, effects |-> <<>>]

SetWorld(w) ==
  /\ sessionId' = w.sessionId
  /\ clientTransport' = w.transport
  /\ clientProtocol' = w.protocol
  /\ protocols' = w.protocols
  /\ connStore' = w.connStore
  /\ obdStore' = w.obdStore
  /\ mockRunning' = w.mock
  /\ effects' = w.effects

\* attempt a performs a side effect; it is stale when a newer call has set sessionId
Effect(w, a, kind, what, pids) ==
  [w EXCEPT !.effects = Append(@, [by |-> a, kind |-> kind, what |-> what, pids |-> pids,
                                   link |-> w.transport.device,
                                   stale |-> a # w.sessionId])]

\* connectionStore.setConnectionState
setConnectionState(w, a, state) ==
  Effect([w EXCEPT !.connStore.state = state,
                   !.connStore.error = IF state = "error" THEN @ ELSE "null"],
         a, "connStore", "setConnectionState", <<>>)

\* connectionStore.setDevice
setDevice(w, a, device) ==
  Effect([w EXCEPT !.connStore.device = device,
                   !.connStore.isElm327Ready = IF device = "null" THEN FALSE ELSE @],
         a, "connStore", "setDevice", <<>>)

\* connectionStore.setElm327Ready
setElm327Ready(w, a, ready) ==
  Effect([w EXCEPT !.connStore.isElm327Ready = ready], a, "connStore", "setElm327Ready", <<>>)

\* connectionStore.setError
setError(w, a, error) ==
  Effect([w EXCEPT !.connStore.error = error,
                   !.connStore.state = IF error # "null" THEN "error" ELSE @],
         a, "connStore", IF error = "null" THEN "setError(null)" ELSE "setError", <<>>)

\* connectionStore.setDemoMode
setDemoMode(w, a, enabled) ==
  Effect([w EXCEPT !.connStore.demoMode = enabled], a, "connStore", "setDemoMode", <<>>)

\* obdStore.startPolling / stopPolling
setPollingActive(w, a, active) ==
  Effect([w EXCEPT !.obdStore.pollingActive = active], a, "obdStore",
         IF active THEN "startPolling" ELSE "stopPolling", <<>>)

\* this.protocol?.stopPolling(); this.protocol = null
stopProtocol(w, a) ==
  IF w.protocol = NoHandle THEN w
  ELSE Effect([w EXCEPT !.protocols[w.protocol] = IF @ = "polling" THEN "draining" ELSE @,
                        !.protocol = NoHandle],
              a, "protocol", "stopPolling", <<>>)

\* transport.disconnect() up to its await: subscriptions and device dropped
transportDisconnect(w, a) ==
  Effect([w EXCEPT !.transport.device = NoHandle], a, "transport", "disconnect", <<>>)

\* transport.disconnect() after its await
transportDisconnected(w) == [w EXCEPT !.transport.state = "disconnected"]

\* the four writes that reset the connection store
resetConnStore(w, a) ==
  setConnectionState(
    setDevice(setElm327Ready(setDemoMode(w, a, FALSE), a, FALSE), a, "null"),
    a, "disconnected")

\* disconnectInternal() up to its await; without a transport it runs to its end
disconnectInternal(w, a) ==
  LET w1 == IF w.connStore.demoMode
              THEN Effect([w EXCEPT !.mock = FALSE], a, "mock", "stop", <<>>)
              ELSE w
      w2 == setPollingActive(stopProtocol(w1, a), a, FALSE)
  IN IF w2.transport.made THEN transportDisconnect(w2, a) ELSE resetConnStore(w2, a)

\* disconnectInternal() after `await this.transport.disconnect()`
disconnectInternalEnd(w, a, reset) ==
  IF reset THEN resetConnStore(transportDisconnected(w), a) ELSE w

\* the catch block of connect, up to its await
catchPath(w, a) ==
  LET w1 == setDevice(setElm327Ready(setError(w, a, "message"), a, FALSE), a, "null")
      w2 == setPollingActive(stopProtocol(w1, a), a, FALSE)
  IN transportDisconnect(w2, a)

\* pidsToPoll.filter((pid) => supportedSet.has(pid))
FilterSupported(pids, supported) ==
  SelectSeq(pids, LAMBDA pid : \E k \in 1..Len(supported) : supported[k] = pid)

\* a step of attempt a: the client's state and the attempt's new position
Step(a, w, pc) ==
  /\ SetWorld(w)
  /\ attempts' = [attempts EXCEPT ![a].pc = pc]
  /\ UNCHANGED <<engineVars, serviceVars>>

\* the attempts, with an adapter command of attempt a noted in its log
Logged(att, a, kind, what) ==
  [att EXCEPT ![a].log = Append(@, [kind |-> kind, what |-> what])]

\* a step of attempt a that also changed the attempt's own record
StepFrom(att, a, w, pc) ==
  /\ SetWorld(w)
  /\ attempts' = [att EXCEPT ![a].pc = pc]
  /\ UNCHANGED <<engineVars, serviceVars>>

\* initialize() of attempt a sends INIT_COMMANDS[ii] and awaits its reply
SendInitCommand(att, a, w, ii) ==
  StepFrom([Logged(att, a, "elm", INIT_COMMANDS[ii]) EXCEPT ![a].ii = ii], a,
           Effect(w, a, "elm", INIT_COMMANDS[ii], <<>>), "init")

\* connect(device), startDemoMode() or disconnect() is called
Call(kind) ==
  LET a == sessionId + 1
  IN /\ sessionId < MaxSessions
     /\ SetWorld(disconnectInternal([World EXCEPT !.sessionId = a], a))
     /\ attempts' = [attempts EXCEPT ![a] = [kind |-> kind, pc |-> "disc",
                                             reset |-> clientTransport.made, ii |-> 0,
                                             log |-> <<>>]]
     /\ UNCHANGED <<engineVars, serviceVars>>

\* startDemoMode after disconnectInternal
DemoContinue(w, a) ==
  IF a # w.sessionId THEN w
  ELSE LET w1 == setDevice(setDemoMode(w, a, TRUE), a, "DEMO")
           w2 == setConnectionState(setElm327Ready(w1, a, TRUE), a, "connected")
       IN Effect([w2 EXCEPT !.mock = TRUE], a, "mock", "start", <<>>)

\* connect after disconnectInternal, up to `await transport.connect(device.id)`
ConnectContinue(w, a) ==
  LET w1 == setError(setElm327Ready(setDemoMode(w, a, FALSE), a, FALSE), a, "null")
      w2 == setConnectionState(w1, a, "connecting")
  IN Effect([w2 EXCEPT !.transport.made = TRUE, !.transport.state = "connecting"],
            a, "transport", "connect", <<>>)

\* the await of disconnectInternal is over
AfterDisconnectInternal(a) ==
  LET w == disconnectInternalEnd(World, a, attempts[a].reset)
  IN /\ attempts[a].pc = "disc"
     /\ CASE attempts[a].kind = "disconnect" -> Step(a, w, "done")
          [] attempts[a].kind = "demo" -> Step(a, DemoContinue(w, a), "done")
          [] attempts[a].kind = "connect" -> Step(a, ConnectContinue(w, a), "conn")

\* transport.connect settles: connected, Bluetooth unavailable, or refused
\* after its own disconnect of the prior connection
TransportConnectSettles(a, outcome) ==
  /\ attempts[a].pc = "conn"
  /\ CASE outcome = "ok" ->
            LET w1 == [World EXCEPT !.transport.device = a,
                                    !.transport.state = "connected",
                                    !.transport.onDisconnect = TRUE]
                w2 == setConnectionState(setDevice(w1, a, "adapter"), a, "connected")
            IN SendInitCommand(attempts, a, w2, 1)
       [] outcome = "unavailable" ->
            Step(a, catchPath([World EXCEPT !.transport.state = "error"], a), "catch_disc")
       [] outcome = "refused" ->
            Step(a, catchPath([World EXCEPT !.transport.device = NoHandle,
                                            !.transport.state = "disconnected"], a),
                 "catch_disc")

\* connect after a successful initialize, up to `await querySupportedPids()`
StartProtocol(w, a) ==
  LET w1 == setElm327Ready(w, a, TRUE)
      w2 == Effect([w1 EXCEPT !.protocol = a, !.protocols[a] = "idle"],
                   a, "protocol", "new", <<>>)
      w3 == Effect(w2, a, "obdStore", "setPollingInterval", <<>>)
  IN Effect(setPollingActive(w3, a, TRUE), a, "protocol", "querySupportedPids", <<>>)

\* the reply to an initialize() command and the delay after it are over:
\* ok when the command resolved with no error pattern in its reply; the
\* next command is sent, or initialize() returns and connect goes on
InitializeSettles(a, ok) ==
  LET ii == attempts[a].ii
      settled == IF ok THEN "elmDone" ELSE "elmFail"
      w == Effect(World, a, settled, INIT_COMMANDS[ii], <<>>)
      att == Logged(attempts, a, settled, INIT_COMMANDS[ii])
  IN /\ attempts[a].pc = "init"
     /\ ok => clientTransport.device # NoHandle
     /\ IF ~ok THEN StepFrom(att, a, catchPath(w, a), "catch_disc")
        ELSE IF ii < Len(INIT_COMMANDS) THEN SendInitCommand(att, a, w, ii + 1)
        ELSE IF a # sessionId THEN StepFrom(att, a, transportDisconnect(w, a), "stale_disc")
        ELSE StepFrom(att, a, StartProtocol(w, a), "qsp")

PidsToPollNoFallback(answer) ==
  IF answer = <<"throw">> THEN DEFAULT_PIDS ELSE FilterSupported(DEFAULT_PIDS, answer)

\* the list connect polls, given the settled support query
PidsToPoll(answer) ==
  LET pids == IF answer = <<"throw">> THEN DEFAULT_PIDS
              ELSE FilterSupported(DEFAULT_PIDS, answer)
  IN IF pids = <<>> THEN <<"010C", "010D", "0105", "0111">> ELSE pids

\* querySupportedPids settles with a list, or throws
SupportQuerySettles(a, answer) ==
  LET w == Effect(World, a, "supported",
                  IF answer = <<"throw">> THEN "throw" ELSE "resolve", answer)
  IN /\ attempts[a].pc = "qsp"
     /\ answer # <<"throw">> => clientTransport.device # NoHandle
     /\ IF a # sessionId
          THEN IF clientProtocol = NoHandle
                 THEN Step(a, catchPath(w, a), "catch_disc")
                 ELSE Step(a, transportDisconnect(
                                setPollingActive(stopProtocol(w, a), a, FALSE), a),
                           "stale_disc")
          ELSE Step(a, Effect([w EXCEPT !.protocols[a] = "polling"],
                              a, "protocol", "startPolling", PidsToPoll(answer)),
                    "done")

\* `await transport.disconnect()` of a stale or failed connect is over
TransportDisconnectSettles(a) ==
  /\ attempts[a].pc \in {"stale_disc", "catch_disc"}
  /\ Step(a, transportDisconnected(World), "done")

\* obdStore.updatePidValue: the entry of pid is replaced (its timestamp is
\* left out)
updatePidValue(w, a, pid, result) ==
  Effect([w EXCEPT !.obdStore.data[pid] = result], a, "obdStore", "updatePidValue", <<pid>>)

onPollResultClearing(w, a, pid, result) ==
  updatePidValue(w, a, pid, result)

\* the callback connect hands to startPolling
onPollResult(w, a, pid, result) ==
  IF result = <<>> THEN w ELSE updatePidValue(w, a, pid, result)

\* the protocol attempt a started invokes the polling callback
PollingCallback(a, pid, result) ==
  LET w1 == Effect([World EXCEPT !.protocols[a] = IF @ = "draining" THEN "idle" ELSE @],
                   a, "callback", IF result # <<>> THEN "result" ELSE "error", <<pid>>)
  IN /\ protocols[a] \in {"polling", "draining"}
     /\ result # <<>> => clientTransport.device # NoHandle
     /\ Step(a, onPollResult(w1, a, pid, result), attempts[a].pc)

\* the device drops the connection: handleUnexpectedDisconnect, whose
\* callback calls disconnect()
UnexpectedDrop ==
  LET a == sessionId + 1
      w == [World EXCEPT !.transport.device = NoHandle,
                         !.transport.state = "disconnected",
                         !.sessionId = a]
  IN /\ clientTransport.device # NoHandle
     /\ sessionId < MaxSessions
     /\ SetWorld(disconnectInternal(w, a))
     /\ attempts' = [attempts EXCEPT ![a] = [kind |-> "disconnect", pc |-> "disc",
                                             reset |-> TRUE, ii |-> 0, log |-> <<>>]]
     /\ UNCHANGED <<engineVars, serviceVars>>

SessionNext ==
  \/ Call("connect")
  \/ Call("demo")
  \/ Call("disconnect")
  \/ \E a \in SessionIds : AfterDisconnectInternal(a)
  \/ \E a \in SessionIds, outcome \in {"ok", "unavailable", "refused"} :
       TransportConnectSettles(a, outcome)
  \/ \E a \in SessionIds, ok \in BOOLEAN : InitializeSettles(a, ok)
  \/ \E a \in SessionIds, answer \in SupportAnswers \cup {<<"throw">>} :
       SupportQuerySettles(a, answer)
  \/ \E a \in SessionIds : TransportDisconnectSettles(a)
  \/ \E a \in SessionIds, pid \in CallbackIds, result \in CallbackResults :
       PollingCallback(a, pid, result)
  \/ UnexpectedDrop

SessionSpec == Init /\ [][SessionNext]_vars

(***************************************************************************)
(* ClassicBluetoothConnectionManager on its own: callers that send one     *)
(* command after the other, and disconnect() and destroy().                *)
(***************************************************************************)
\* the commands the callers send
TransportCommands == { Chars["010C"] }

\* caller c calls sendCommand(cmd)
CallSendCommand(c, cmd) ==
  /\ ~MicrotaskPending
  /\ chains[c].stage = "none"
  /\ chains' = [chains EXCEPT ![c] = [sendCommand(@, cmd) EXCEPT !.pc = "call"]]
  /\ issued' = <<[chain |-> c, gi |-> 0, kind |-> "call", cmd |-> cmd]>>
  /\ emitted' = <<>>
  /\ written' = <<>>
  /\ UNCHANGED <<pure, op, clientVars, serviceVars, protocolVars, transportVars, pollTimers, nChains, devCmd>>

\* the promise sendCommand returned to caller c has settled and c goes on
Settled(c) ==
  /\ chains[c].stage \in {"ok", "err"}
  /\ chains' = [chains EXCEPT ![c] = NoChain]
  /\ emitted' = <<>>
  /\ issued' = <<>>
  /\ written' = <<>>
  /\ UNCHANGED <<pure, op, clientVars, serviceVars, protocolVars, transportVars, pollTimers, nChains, devCmd>>

\* disconnect() up to `await device.disconnect()`; without a device it
\* runs to its end
Disconnect ==
  /\ ~MicrotaskPending
  /\ connectionState = "connected"
  /\ readSubscription' = FALSE
  /\ responseTimers' = responseTimers \ {responseTimer}
  /\ responseTimer' = NoHandle
  /\ responseResolve' = NoHandle
  /\ chains' = ClearPendingResponse(chains)
  /\ connectedDevice' = FALSE
  /\ connectionState' = IF connectedDevice THEN connectionState ELSE "disconnected"
  /\ emitted' = <<>>
  /\ issued' = <<>>
  /\ written' = <<>>
  /\ UNCHANGED <<pure, op, clientVars, serviceVars, protocolVars, pollTimers, nChains, devCmd>>

\* disconnect() after `await device.disconnect()`
DisconnectDone ==
  /\ ~MicrotaskPending
  /\ ~connectedDevice /\ connectionState = "connected"
  /\ connectionState' = "disconnected"
  /\ emitted' = <<>>
  /\ issued' = <<>>
  /\ written' = <<>>
  /\ UNCHANGED <<pure, op, clientVars, serviceVars, protocolVars, pollTimers, nChains, devCmd, chains,
                 connectedDevice, readSubscription, responseResolve, responseTimer,
                 responseTimers>>

\* destroy()
Destroy ==
  /\ ~MicrotaskPending
  /\ connectionState = "connected"
  /\ readSubscription' = FALSE
  /\ responseTimers' = responseTimers \ {responseTimer}
  /\ responseTimer' = NoHandle
  /\ responseResolve' = NoHandle
  /\ chains' = ClearPendingResponse(chains)
  /\ connectedDevice' = FALSE
  /\ connectionState' = "disconnected"
  /\ emitted' = <<>>
  /\ issued' = <<>>
  /\ written' = <<>>
  /\ UNCHANGED <<pure, op, clientVars, serviceVars, protocolVars, pollTimers, nChains, devCmd>>

TransportNext ==
  \/ \E c \in ChainIds, cmd \in TransportCommands : CallSendCommand(c, cmd)
  \/ \E c \in ChainIds : Settled(c)
  \/ \E c \in ChainIds : ClearDone(c)
  \/ \E c \in ChainIds, ok \in BOOLEAN : WriteDone(c, ok)
  \/ \E message \in DeviceReplies : DeviceReply(message)
  \/ \E c \in ChainIds : ResponseTimeout(c)
  \/ UnexpectedDisconnect
  \/ Disconnect
  \/ DisconnectDone
  \/ Destroy

\* the event loop runs a continuation that is ready, and a response timeout
\* that is armed fires
TransportSpec ==
  /\ Init
  /\ [][TransportNext]_vars
  /\ \A c \in ChainIds : WF_vars(Settled(c)) /\ SF_vars(ResponseTimeout(c))

(***************************************************************************)
(* torqueEquation.ts: the equation compiler.  A JavaScript number is a     *)
(* fraction <<numerator, denominator>> in lowest terms with a positive     *)
(* denominator; an integer n is <<n, 1>>.                                  *)
(***************************************************************************)
Letters ==
  <<"A","B","C","D","E","F","G","H","I","J","K","L","M",
    "N","O","P","Q","R","S","T","U","V","W","X","Y","Z">>

SmallLetters ==
  <<"a","b","c","d","e","f","g","h","i","j","k","l","m",
    "n","o","p","q","r","s","t","u","v","w","x","y","z">>

Digits == <<"0","1","2","3","4","5","6","7","8","9">>

\* ch >= 'A' && ch <= 'Z'
isUpperAlpha(ch) == \E i \in 1..26 : Letters[i] = ch

\* ch >= '0' && ch <= '9'
isDigit(ch) == \E i \in 1..10 : Digits[i] = ch

\* ch === ' ' || ch === '\t' || ch === '\n' || ch === '\r'
isWhitespace(ch) == ch \in {" ", "\t", "\n", "\r"}

\* ch.charCodeAt(0) - 64 of an upper-case letter
LetterNumber(ch) == CHOOSE i \in 1..26 : Letters[i] = ch

DigitValue(ch) == (CHOOSE i \in 1..10 : Digits[i] = ch) - 1

\* String.prototype.toUpperCase on letters of any case
upperCase(s) ==
  [i \in 1..Len(s) |->
     IF \E k \in 1..26 : SmallLetters[k] = s[i]
       THEN Letters[CHOOSE k \in 1..26 : SmallLetters[k] = s[i]]
       ELSE s[i]]

RECURSIVE GCD(_, _)
GCD(a, b) == IF b = 0 THEN a ELSE GCD(b, a % b)

Abs(n) == IF n < 0 THEN 0 - n ELSE n

\* a value that is not finite: NaN or an infinity
NotFinite == <<1, 0>>

\* the fraction n/d in lowest terms
Frac(n, d) ==
  LET g == GCD(Abs(n), Abs(d))
      sign == IF d < 0 THEN 0 - 1 ELSE 1
  IN IF d = 0 THEN NotFinite ELSE <<(sign * n) \div g, (sign * d) \div g>>

Zero == <<0, 1>>
IntNum(n) == <<n, 1>>
Plus(a, b) == Frac(a[1] * b[2] + b[1] * a[2], a[2] * b[2])
Minus(a, b) == Frac(a[1] * b[2] - b[1] * a[2], a[2] * b[2])
Times(a, b) == Frac(a[1] * b[1], a[2] * b[2])
Over(a, b) == Frac(a[1] * b[2], a[2] * b[1])
Negated(a) == <<0 - a[1], a[2]>>

\* the per-character step of torqueVarToIndex counting 'A' as 0
VarIndexFromZero(upper, i, n) ==
  n * 26 + LetterNumber(upper[i]) - 1

\* one round of the loop of torqueVarToIndex: n *= 26; n += code - 64
VarIndexStep(upper, i, n) ==
  n * 26 + LetterNumber(upper[i])

\* the loop of torqueVarToIndex from character i on
RECURSIVE VarIndexLoop(_, _, _)
VarIndexLoop(upper, i, n) ==
  IF i > Len(upper) THEN n
  ELSE VarIndexLoop(upper, i + 1, VarIndexStep(upper, i, n))

\* torqueVarToIndex(name)
torqueVarToIndex(name) ==
  LET upper == upperCase(name)
  IN IF upper = <<>> \/ \E i \in 1..Len(upper) : ~isUpperAlpha(upper[i])
       THEN 0 - 1
       ELSE VarIndexLoop(upper, 1, 0) - 1

\* getByte(bytes, name); bytes is 1-based here
getByte(bytes, name) ==
  LET idx == torqueVarToIndex(name)
  IN IF idx < 0 \/ idx >= Len(bytes) THEN Zero ELSE IntNum(bytes[idx + 1])

\* a token; the fields a token type does not have keep these defaults
Token(type) == [type |-> type, value |-> Zero, name |-> <<>>, bit |-> 0, op |-> ""]

\* the value of a run of digits
RECURSIVE DecimalValue(_)
DecimalValue(digits) ==
  IF digits = <<>> THEN 0
  ELSE DecimalValue(SubSeq(digits, 1, Len(digits) - 1)) * 10
         + DigitValue(digits[Len(digits)])

RECURSIVE PowerOfTen(_)
PowerOfTen(n) == IF n = 0 THEN 1 ELSE 10 * PowerOfTen(n - 1)

\* Number(numStr) of digits with at most one dot
NumberValue(numStr) ==
  LET digits == SelectSeq(numStr, isDigit)
      dots == {i \in 1..Len(numStr) : numStr[i] = "."}
      decimals == IF dots = {} THEN 0 ELSE Len(numStr) - (CHOOSE i \in dots : TRUE)
  IN Frac(DecimalValue(digits), PowerOfTen(decimals))

\* the first index from j on that does not continue a number
RECURSIVE NumberEnd(_, _, _)
NumberEnd(s, j, hasDot) ==
  IF j > Len(s) THEN j
  ELSE IF isDigit(s[j]) THEN NumberEnd(s, j + 1, hasDot)
  ELSE IF s[j] = "." /\ ~hasDot THEN NumberEnd(s, j + 1, TRUE)
  ELSE j

\* the first index from j on that is not an upper-case letter
RECURSIVE NameEnd(_, _)
NameEnd(s, j) ==
  IF j <= Len(s) /\ isUpperAlpha(s[j]) THEN NameEnd(s, j + 1) ELSE j

\* the first index from j on that is not white space
RECURSIVE SkipSpace(_, _)
SkipSpace(s, j) ==
  IF j <= Len(s) /\ isWhitespace(s[j]) THEN SkipSpace(s, j + 1) ELSE j

\* inner.match(/^([A-Z]+)\s*:\s*(\d+)$/)
BitMatch(inner) ==
  LET nameEnd == NameEnd(inner, 1)
      colon == SkipSpace(inner, nameEnd)
      digitsStart == SkipSpace(inner, colon + 1)
      digits == SubSeq(inner, digitsStart, Len(inner))
  IN IF /\ nameEnd > 1
        /\ colon <= Len(inner) /\ inner[colon] = ":"
        /\ digits # <<>> /\ \A i \in 1..Len(digits) : isDigit(digits[i])
       THEN [ok |-> TRUE, name |-> SubSeq(inner, 1, nameEnd - 1),
             bit |-> DecimalValue(digits)]
       ELSE [ok |-> FALSE, name |-> <<>>, bit |-> 0]

Thrown(error) == [ok |-> FALSE, tokens |-> <<>>, error |-> error]

\* the while loop of tokenize at index i (1-based)
RECURSIVE tokenizeFrom(_, _, _)
tokenizeFrom(s, i, tokens) ==
  IF i > Len(s) THEN [ok |-> TRUE, tokens |-> tokens, error |-> ""]
  ELSE LET ch == s[i]
       IN IF isWhitespace(ch) THEN tokenizeFrom(s, i + 1, tokens)
          ELSE IF ch = "{" THEN
            LET closes == {j \in (i + 1)..Len(s) : s[j] = "}"}
                end == CHOOSE j \in closes : \A k \in closes : j <= k
                m == BitMatch(trim(SubSeq(s, i + 1, end - 1)))
            IN IF closes = {} THEN Thrown("Unterminated bit extraction")
               ELSE IF ~m.ok THEN Thrown("Invalid bit extraction")
               ELSE tokenizeFrom(s, end + 1,
                      Append(tokens, [Token("bit") EXCEPT !.name = m.name, !.bit = m.bit]))
          ELSE IF isDigit(ch) \/ (ch = "." /\ i + 1 <= Len(s) /\ isDigit(s[i + 1])) THEN
            LET j == NumberEnd(s, i, FALSE)
            IN tokenizeFrom(s, j,
                 Append(tokens, [Token("number") EXCEPT
                                   !.value = NumberValue(SubSeq(s, i, j - 1))]))
          ELSE IF isUpperAlpha(ch) THEN
            LET j == NameEnd(s, i + 1)
            IN tokenizeFrom(s, j,
                 Append(tokens, [Token("var") EXCEPT !.name = SubSeq(s, i, j - 1)]))
          ELSE IF ch \in {"+", "-", "*", "/"} THEN
            tokenizeFrom(s, i + 1, Append(tokens, [Token("op") EXCEPT !.op = ch]))
          ELSE IF ch = "(" THEN tokenizeFrom(s, i + 1, Append(tokens, Token("lparen")))
          ELSE IF ch = ")" THEN tokenizeFrom(s, i + 1, Append(tokens, Token("rparen")))
          ELSE Thrown("Unexpected character")

\* tokenize(expr)
tokenize(expr) == tokenizeFrom(upperCase(trim(expr)), 1, <<>>)

\* precedence(op)
precedence(o) ==
  CASE o = "NEG" -> 3
    [] o \in {"*", "/"} -> 2
    [] o \in {"+", "-"} -> 1
    [] OTHER -> 0

\* isRightAssociative(op)
isRightAssociative(o) == o = "NEG"

IsUnaryAtStartOnly(prev) == prev = "none"

\* a '-' is unary at the start, after an operator and after '('
IsUnary(prev) == prev \in {"none", "op", "lparen"}

\* the while loop that moves operators from the stack to the output before
\* operator t is pushed
RECURSIVE PopOperators(_, _, _)
PopOperators(t, out, stack) ==
  IF stack = <<>> THEN [out |-> out, stack |-> stack]
  ELSE LET top == stack[Len(stack)]
           p1 == precedence(t.op)
           p2 == precedence(top.op)
           shouldPop == IF isRightAssociative(t.op) THEN p1 < p2 ELSE p1 <= p2
       IN IF top.type # "op" \/ ~shouldPop THEN [out |-> out, stack |-> stack]
          ELSE PopOperators(t, Append(out, top), SubSeq(stack, 1, Len(stack) - 1))

\* the while loop of a right parenthesis: pop to the matching '('
RECURSIVE PopToParen(_, _)
PopToParen(out, stack) ==
  IF stack = <<>> THEN [found |-> FALSE, out |-> out, stack |-> stack]
  ELSE LET top == stack[Len(stack)]
           rest == SubSeq(stack, 1, Len(stack) - 1)
       IN IF top.type = "lparen" THEN [found |-> TRUE, out |-> out, stack |-> rest]
          ELSE PopToParen(Append(out, top), rest)

\* the final loop of toRpn: the stack is emptied, a parenthesis left on it throws
RECURSIVE Drain(_, _)
Drain(out, stack) ==
  IF stack = <<>> THEN [ok |-> TRUE, tokens |-> out, error |-> ""]
  ELSE LET top == stack[Len(stack)]
       IN IF top.type \in {"lparen", "rparen"} THEN Thrown("Mismatched parentheses")
          ELSE Drain(Append(out, top), SubSeq(stack, 1, Len(stack) - 1))

\* the for loop of toRpn at token k; prev is the type of the previous token
RECURSIVE toRpnFrom(_, _, _, _, _)
toRpnFrom(tokens, k, out, stack, prev) ==
  IF k > Len(tokens) THEN Drain(out, stack)
  ELSE LET t0 == tokens[k]
           t == IF t0.type = "op" /\ t0.op = "-" /\ IsUnary(prev)
                  THEN [t0 EXCEPT !.op = "NEG"] ELSE t0
       IN IF t.type \in {"number", "var", "bit"}
            THEN toRpnFrom(tokens, k + 1, Append(out, t), stack, t.type)
          ELSE IF t.type = "op"
            THEN LET popped == PopOperators(t, out, stack)
                 IN toRpnFrom(tokens, k + 1, popped.out, Append(popped.stack, t), "op")
          ELSE IF t.type = "lparen"
            THEN toRpnFrom(tokens, k + 1, out, Append(stack, t), "lparen")
          ELSE LET popped == PopToParen(out, stack)
               IN IF ~popped.found THEN Thrown("Mismatched parentheses")
                  ELSE toRpnFrom(tokens, k + 1, popped.out, popped.stack, "rparen")

\* toRpn(tokens)
toRpn(tokens) == toRpnFrom(tokens, 1, <<>>, <<>>, "none")

ClampBitNot(bit) == bit

\* Math.max(0, Math.min(31, t.bit))
ClampBit(bit) == IF bit < 0 THEN 0 ELSE IF bit > 31 THEN 31 ELSE bit

\* b halved count times
RECURSIVE Halved(_, _)
Halved(b, count) == IF count = 0 THEN b ELSE Halved(b \div 2, count - 1)

\* b >> bit for 0 <= b < 2^31; the shift uses the low five bits of the count
ShiftRight(b, bit) == Halved(b, bit % 32)

\* ((b >> bit) & 1) >>> 0
BitValue(b, bit) == ShiftRight(b, ClampBit(bit)) % 2

DivideUnguarded(aa, bb) == Over(aa, bb)

\* bb === 0 ? 0 : aa / bb
Divide(aa, bb) == IF bb = Zero THEN Zero ELSE Over(aa, bb)

\* stack.pop() ?? 0 : the value popped and the stack left
Pop(stack) ==
  IF stack = <<>> THEN [value |-> Zero, stack |-> <<>>]
  ELSE [value |-> stack[Len(stack)], stack |-> SubSeq(stack, 1, Len(stack) - 1)]

\* the for loop of evalRpn at token k
RECURSIVE evalRpnFrom(_, _, _, _)
evalRpnFrom(rpn, k, stack, bytes) ==
  IF k > Len(rpn) THEN (IF stack = <<>> THEN Zero ELSE stack[Len(stack)])
  ELSE LET t == rpn[k]
       IN IF t.type = "number" THEN evalRpnFrom(rpn, k + 1, Append(stack, t.value), bytes)
          ELSE IF t.type = "var"
            THEN evalRpnFrom(rpn, k + 1, Append(stack, getByte(bytes, t.name)), bytes)
          ELSE IF t.type = "bit"
            THEN evalRpnFrom(rpn, k + 1,
                   Append(stack, IntNum(BitValue(getByte(bytes, t.name)[1], t.bit))), bytes)
          ELSE IF t.type = "op" /\ t.op = "NEG"
            THEN LET a == Pop(stack)
                 IN evalRpnFrom(rpn, k + 1, Append(a.stack, Negated(a.value)), bytes)
          ELSE IF t.type = "op"
            THEN LET b == Pop(stack)
                     a == Pop(b.stack)
                     aa == a.value
                     bb == b.value
                     v == CASE t.op = "+" -> Plus(aa, bb)
                            [] t.op = "-" -> Minus(aa, bb)
                            [] t.op = "*" -> Times(aa, bb)
                            [] t.op = "/" -> Divide(aa, bb)
                 IN evalRpnFrom(rpn, k + 1, Append(a.stack, v), bytes)
          ELSE evalRpnFrom(rpn, k + 1, stack, bytes)

\* evalRpn(rpn, bytes)
evalRpn(rpn, bytes) == evalRpnFrom(rpn, 1, <<>>, bytes)

\* compileTorqueEquation(expression): the RPN the decoder closes over, or
\* the constant decoder
compileTorqueEquation(expression) ==
  LET expr == trim(expression)
      tokens == tokenize(expr)
      rpn == toRpn(tokens.tokens)
  IN IF expr = <<>> THEN [constant |-> TRUE, rpn |-> <<>>, warned |-> FALSE]
     ELSE IF ~tokens.ok \/ ~rpn.ok THEN [constant |-> TRUE, rpn |-> <<>>, warned |-> TRUE]
     ELSE [constant |-> FALSE, rpn |-> rpn.tokens, warned |-> FALSE]

\* the decoder compileTorqueEquation returned, applied to bytes
Decode(compiled, bytes) ==
  IF compiled.constant THEN Zero ELSE evalRpn(compiled.rpn, bytes)

(***************************************************************************)
(* The equation compiler as a function of the expression and the bytes.    *)
(***************************************************************************)
MaxPieces == 3

MaxName == 2

\* what generated expressions are made of
EquationPieces ==
  { <<"A">>, <<"B">>, <<"2">>, <<"0">>, <<"+">>, <<"-">>, <<"*">>, <<"/">>,
    <<"(">>, <<")">>, <<"{", "A", ":", "1", "}">> }

\* the byte arrays generated expressions are decoded on
EquationBytes == { <<6>>, <<0, 3>> }

\* expressions of the PID sheets and malformed ones
WholeExpressions ==
  { <<"(", "A", " ", "-", " ", "{", "A", ":", "7", "}", " ", "*", " ", "2", "5", "6", ")">>,
    <<"A", " ", "*", " ", "3", "2", " ", "/", " ", "2", "5">>,
    <<"-", "A", " ", "/", " ", "2">>,
    <<"a", " ", "+", " ", "b">>,
    <<"A", " ", "#", " ", "2">>,
    <<"{", "A", ":", "7">>,
    <<"{", "7", "}">>,
    <<"{", "A", ":", "x", "}">>,
    <<"{", " ", "A", " ", ":", " ", "1", " ", "}", " ", "+", " ", ".", "5">>,
    <<"1", ".", "5", ".", "5">>,
    <<"1", ".", ".">>,
    <<"A", "A", " ", "+", " ", "A", "D">>,
    <<"A", " ", "+", " ", "B", " ", "*", " ", "2">>,
    <<"(", "A", " ", "+", " ", "B", ")", " ", "*", " ", "2">>,
    <<"A", " ", "-", " ", "B", " ", "-", " ", "2">>,
    <<"A", " ", "/", " ", "B", " ", "/", " ", "2">>,
    <<"2", " ", "*", " ", "-", "A">>,
    <<"A", " ", "-", " ", "-", "B">>,
    <<"-", "(", "A", " ", "+", " ", "2", ")">>,
    <<"A", " ", "/", " ", "(", "B", " ", "-", " ", "B", ")">>,
    <<" ", " ", " ">>,
    <<"A", " ", "+">>,
    <<"A", " ", "B">>,
    <<"(", "A">>,
    <<"A", ")">>,
    <<"2", " ", "(", "A", ")">> }

\* bit extractions at and beyond the ends of the clamp
BitExpressions ==
  { <<"{", "A", ":", "0", "}">>,
    <<"{", "A", ":", "1", "}">>,
    <<"{", "A", ":", "2", "}">>,
    <<"{", "A", ":", "3", "}">>,
    <<"{", "A", ":", "4", "}">>,
    <<"{", "A", ":", "5", "}">>,
    <<"{", "A", ":", "6", "}">>,
    <<"{", "A", ":", "7", "}">>,
    <<"{", "A", ":", "8", "}">>,
    <<"{", "A", ":", "3", "1", "}">>,
    <<"{", "A", ":", "3", "2", "}">>,
    <<"{", "A", ":", "3", "3", "}">>,
    <<"{", "A", ":", "4", "0", "}">> }

\* expressions decoded on every value of byte A
ByteWideExpressions ==
  BitExpressions \cup
    { <<"(", "A", " ", "-", " ", "{", "A", ":", "7", "}", " ", "*", " ", "2", "5", "6", ")">>,
      <<"A", " ", "*", " ", "3", "2", " ", "/", " ", "2", "5">>,
      <<"-", "A", " ", "/", " ", "2">>, <<"A">> }

\* the characters names are made of
NameChars == {"A", "B", "D", "Z", "a", "z", "1", " "}

\* a reply payload long enough for the two-letter name AD
LongPayload == [i \in 1..30 |-> 100 + i]

EquationInit ==
  /\ EngineInit
  /\ ClientInit
  /\ op = NoOp
  /\ pure \in
       {[fn |-> "compileTorqueEquation", expression |-> expression, bytes |-> bytes,
         value |-> Zero, warned |-> FALSE, done |-> FALSE] :
          expression \in {Concat(parts) : parts \in SeqsUpTo(EquationPieces, MaxPieces)}
                           \cup WholeExpressions,
          bytes \in EquationBytes}
       \cup
       {[fn |-> "compileTorqueEquation", expression |-> expression, bytes |-> <<b>>,
         value |-> Zero, warned |-> FALSE, done |-> FALSE] :
          expression \in ByteWideExpressions, b \in 0..255}
       \cup
       {[fn |-> "torqueVarToIndex", name |-> name, index |-> 0, value |-> Zero,
         done |-> FALSE] : name \in SeqsUpTo(NameChars, MaxName)}

\* the expression is compiled and the decoder is applied to the bytes
RunCompile ==
  /\ pure.fn = "compileTorqueEquation"
  /\ ~pure.done
  /\ LET compiled == compileTorqueEquation(pure.expression)
     IN pure' = [pure EXCEPT !.value = Decode(compiled, pure.bytes),
                             !.warned = compiled.warned,
                             !.done = TRUE]
  /\ UNCHANGED <<protocolVars, transportVars, pollTimers, nChains, chains, devCmd,
                 emitted, issued, written, op, clientVars, serviceVars>>

\* torqueVarToIndex runs on the name, and the name is decoded as an
\* expression on a long payload
RunVarToIndex ==
  /\ pure.fn = "torqueVarToIndex"
  /\ ~pure.done
  /\ pure' = [pure EXCEPT !.index = torqueVarToIndex(pure.name),
                          !.value = Decode(compileTorqueEquation(pure.name), LongPayload),
                          !.done = TRUE]
  /\ UNCHANGED <<protocolVars, transportVars, pollTimers, nChains, chains, devCmd,
                 emitted, issued, written, op, clientVars, serviceVars>>

EquationNext == RunCompile \/ RunVarToIndex

EquationSpec == EquationInit /\ [][EquationNext]_vars

(***************************************************************************)
(* Properties.                                                             *)
(***************************************************************************)
\* chain c runs its continuation in this step
Resumes(c) == chains[c].stage \in {"ok", "err"} /\ chains'[c] # chains[c]

\* the group chain c is working on
GroupAt(c) == chains[c].groups[chains[c].gi]

\* chain c enters group g in this step (from the previous group, its timer or startPolling)
BeginsGroup(c, g) ==
  /\ chains'[c].pc \in {"hdr", "req"}
  /\ chains'[c].gi = g
  /\ chains[c].gi # g

\* chain c arms its next-cycle timer in this step
ArmsTimer(c) == c \in pollTimers' /\ c \notin pollTimers

\* the settled promise of chain c is a failure of its group: a rejected
\* header-set command or data request, or a reply without payload
GroupFailed(c) ==
  \/ chains[c].stage = "err"
  \/ /\ chains[c].stage = "ok"
     /\ chains[c].pc = "req"
     /\ parseResponseBytes(chains[c].result, GroupAt(c).request) = <<>>

\* the callbacks of the last step go to the ids of the group, one each, in order
CallbacksCover(cbs, c, group) ==
  /\ Len(cbs) = Len(group.ids)
  /\ \A k \in 1..Len(cbs) : cbs[k].chain = c /\ cbs[k].id = group.ids[k]

\* C1: after any sequence of startPolling/stopPolling calls one polling cycle
\* chain is active: never two next-cycle timers pending, and a chain that a
\* later startPolling has replaced neither enters another group nor arms a timer.
C1_OneCycleChain ==
  /\ [](Cardinality(pollTimers) <= 1)
  /\ [][\A c \in ChainIds :
          (ArmsTimer(c) \/ \E g \in 1..Len(chains'[c].groups) : BeginsGroup(c, g))
             => c = nChains']_vars

\* C2: once stopPolling has been called and startPolling is not called again,
\* the polling callback is never invoked again.
C2_NoCallbackAfterStop ==
  [][(~isPolling /\ ~isPolling') => emitted' = <<>>]_vars

\* C3: a group whose header-set command or data request rejects, or whose reply
\* has no payload, gets an error callback for each of its ids; while polling is
\* not stopped the cycle goes on with the next group, which is requested and
\* gets one callback per id in turn, and after the last group the next cycle
\* is scheduled.
C3_FailureIsolated ==
  [][\A c \in ChainIds :
       LET g == chains[c].gi
           n == Len(chains[c].groups)
       IN /\ (Resumes(c) /\ GroupFailed(c)) =>
               /\ CallbacksCover(emitted', c, GroupAt(c))
               /\ \A k \in 1..Len(emitted') : ~emitted'[k].ok
               /\ (isPolling /\ g < n) =>
                     /\ BeginsGroup(c, g + 1)
                     /\ issued' # <<>> /\ issued'[1].chain = c /\ issued'[1].gi = g + 1
               /\ (isPolling /\ g = n) => (c \in pollTimers' /\ pollingTimer' = c)
          /\ (Resumes(c) /\ chains[c].pc = "req") =>
               CallbacksCover(emitted', c, GroupAt(c))]_vars

WitnessC3 ==
  \E c \in ChainIds :
    /\ chains[c].gi = 2
    /\ CallbacksCover(emitted, c, chains[c].groups[1])
    /\ \A k \in 1..Len(emitted) : ~emitted[k].ok
    /\ issued # <<>> /\ issued[1].chain = c /\ issued[1].gi = 2

\* C4: the transport never has two commands in flight: at most one sendCommand
\* call is between its guards and its settlement (clear, write, waiting).
C4_SingleFlight ==
  Cardinality({c \in ChainIds : chains[c].stage \in {"clear", "write", "wait"}}) <= 1

\* C5: a group starts with 'ATSH <header>' exactly when its desired header
\* differs from the cached currentTxHeader at that moment, and the command
\* carries the desired header; with an equal cache the data request is sent
\* directly.
C5_HeaderOnlyWhenDifferent ==
  [][\A c \in ChainIds : \A g \in 1..Len(chains'[c].groups) :
       BeginsGroup(c, g) =>
         LET desired == DesiredHeader(chains'[c].groups[g].header)
         IN /\ (chains'[c].pc = "hdr") <=> (currentTxHeader # desired)
            /\ issued' # <<>>
            /\ (issued'[1].kind = "hdr") <=> (chains'[c].pc = "hdr")
            /\ (issued'[1].kind = "hdr") =>
                 issued'[1].cmd = Chars["ATSH "] \o desired]_vars

WitnessC5 ==
  /\ emitted # <<>>
  /\ issued # <<>>
  /\ issued[1].kind = "req"
  /\ currentTxHeader = DesiredHeader(chains[issued[1].chain].groups[issued[1].gi].header)

\* C6: the cached header changes only when a header-set command has
\* succeeded, and then to that command's header; when the command rejects,
\* the cache keeps its value, the group's data request is not sent and the
\* cache still differs from the desired header while no other chain runs.
C6_CacheOnlyOnSuccess ==
  [][/\ (currentTxHeader' # currentTxHeader) =>
          \E c \in ChainIds :
            /\ Resumes(c) /\ chains[c].pc = "hdr" /\ chains[c].stage = "ok"
            /\ currentTxHeader' = DesiredHeader(GroupAt(c).header)
     /\ \A c \in ChainIds :
          (Resumes(c) /\ chains[c].pc = "hdr" /\ chains[c].stage = "err") =>
            /\ currentTxHeader' = currentTxHeader
            /\ \A k \in 1..Len(issued') :
                 ~(issued'[k].chain = c /\ issued'[k].gi = chains[c].gi)
            /\ (nChains = 1) => currentTxHeader' # DesiredHeader(GroupAt(c).header)]_vars

WitnessC6 ==
  \E c \in ChainIds :
    /\ nChains = 1
    /\ chains[c].gi = 2
    /\ CallbacksCover(emitted, c, chains[c].groups[1])
    /\ \A k \in 1..Len(emitted) : ~emitted[k].ok
    /\ currentTxHeader # DesiredHeader(chains[c].groups[1].header)

\* the (normalised header or 7DF, normalised request) pair of an id
ClaimKey(id) == <<DesiredHeader(HeaderOf(id)), RequestOf(id)>>

\* the groups that hold id
GroupsHolding(groups, id) ==
  {g \in 1..Len(groups) : \E k \in 1..Len(groups[g].ids) : groups[g].ids[k] = id}

\* occurrences of id in a list
Occurrences(list, id) == Cardinality({k \in 1..Len(list) : list[k] = id})

\* position of the first id of the list that has the key
FirstWithKey(list, key) ==
  CHOOSE i \in 1..Len(list) :
    ClaimKey(list[i]) = key /\ \A j \in 1..(i - 1) : ClaimKey(list[j]) # key

\* C7: the groups partition the id list: every id of the list is in exactly
\* one group, as often as it occurs in the list, and no other id is in a
\* group; two ids share a group exactly when their (header, request) pairs
\* are equal; groups are ordered by the first appearance of their pair.
C7_GroupsPartitionIds ==
  pure.fn = "BuildGroups" /\ pure.done =>
    LET pids == pure.pids
        groups == pure.groups
    IN /\ \A i \in 1..Len(pids) :
            /\ Cardinality(GroupsHolding(groups, pids[i])) = 1
            /\ \A g \in GroupsHolding(groups, pids[i]) :
                 Occurrences(groups[g].ids, pids[i]) = Occurrences(pids, pids[i])
       /\ \A g \in 1..Len(groups) :
            /\ groups[g].ids # <<>>
            /\ \A k \in 1..Len(groups[g].ids) :
                 \E i \in 1..Len(pids) : pids[i] = groups[g].ids[k]
       /\ \A i, j \in 1..Len(pids) :
            (GroupsHolding(groups, pids[i]) = GroupsHolding(groups, pids[j]))
              <=> (ClaimKey(pids[i]) = ClaimKey(pids[j]))
       /\ \A g, h \in 1..Len(groups) :
            g < h => FirstWithKey(pids, ClaimKey(groups[g].ids[1]))
                       < FirstWithKey(pids, ClaimKey(groups[h].ids[1]))
       /\ (pids = <<"TOYOTA_HV_VOLTAGE", "PC_7E2_2181_V01", "010D">>) =>
            /\ Len(groups) = 2
            /\ groups[1].ids = <<"TOYOTA_HV_VOLTAGE", "PC_7E2_2181_V01">>
            /\ groups[2].ids = <<"010D">>

WitnessC7 ==
  /\ pure.fn = "BuildGroups" /\ pure.done
  /\ pure.pids = <<"010d", "TOYOTA_HV_VOLTAGE", "010D">>
  /\ Len(pure.groups) = 2
  /\ pure.groups[1].ids = <<"010d", "010D">>

\* C8: in a cycle the data request of a group is sent once, after the step of
\* the group before it, in construction order, as the formatted request of the
\* group; every value callback of the group carries that one reply.
C8_OneRequestPerGroup ==
  [][\A c \in ChainIds :
       /\ \A k \in 1..Len(issued') :
            (issued'[k].chain = c /\ issued'[k].kind = "req") =>
              LET g == issued'[k].gi
              IN /\ chains'[c].pc = "req" /\ chains'[c].gi = g
                 /\ issued'[k].cmd = formatObdCommand(chains'[c].groups[g].request)
                 /\ \/ chains[c].pc = "hdr" /\ chains[c].gi = g
                    \/ chains[c].pc \in {"hdr", "req"} /\ chains[c].gi = g - 1
                    \/ chains[c].pc \in {"none", "sleep"} /\ g = 1
       /\ Resumes(c) =>
            \/ chains'[c].pc \in {"sleep", "done"}
            \/ chains'[c].gi = chains[c].gi /\ chains[c].pc = "hdr" /\ chains'[c].pc = "req"
            \/ chains'[c].gi = chains[c].gi + 1
       /\ Resumes(c) =>
            \A k \in 1..Len(emitted') :
              emitted'[k].ok =>
                /\ emitted'[k].raw = chains[c].result
                /\ emitted'[k].bytes = parseResponseBytes(chains[c].result, GroupAt(c).request)
                /\ emitted'[k].bytes # <<>>]_vars

WitnessC8 ==
  \E c \in ChainIds :
    /\ chains[c].pc = "req" /\ chains[c].gi = 2
    /\ Len(emitted) = 2 /\ emitted[1].ok /\ emitted[2].ok
    /\ emitted[1].id # emitted[2].id

\* C9: the next-cycle timer of a chain is armed only by the step that
\* completes the last group of its cycle, and while the timer is pending the
\* chain is not inside a cycle.
C9_DelayAfterCompletion ==
  /\ [](\A c \in pollTimers : chains[c].pc = "sleep")
  /\ [][\A c \in ChainIds :
          /\ ArmsTimer(c) =>
               /\ Resumes(c)
               /\ chains[c].gi = Len(chains[c].groups)
               /\ chains[c].pc = "req" \/ chains[c].stage = "err"
          /\ (chains[c].pc \in {"hdr", "req"} /\ chains'[c].pc \in {"hdr", "req"}) =>
               chains'[c].gi >= chains[c].gi]_vars

WitnessC9 ==
  \E c \in pollTimers : chains[c].pc = "sleep" /\ pollingTimer = c /\ emitted # <<>>

\* C10: after stopPolling (and no later startPolling) the loop makes no
\* further sendCommand call and no next-cycle timer is pending.
C10_NoTransmissionAfterStop ==
  /\ [](~isPolling => pollTimers = {})
  /\ [][(~isPolling /\ ~isPolling') => issued' = <<>>]_vars

\* C11: stopPolling is idempotent and cancels any pending scheduled cycle:
\* after any call the flag is false, the handle is null and no next-cycle
\* timer is pending; a call made when the flag is already false and the
\* handle null (no polling active, or right after another call) changes
\* nothing.
C11_StopIdempotent ==
  [][StopPolling =>
       /\ ~isPolling' /\ pollingTimer' = NoHandle
       /\ pollTimers' = {}
       /\ (~isPolling /\ pollingTimer = NoHandle) =>
            UNCHANGED <<protocolVars, transportVars, pollTimers, nChains, chains, devCmd>>]_vars

\* entry k of the operation's log is range query q, answered with raw
RangeQueryAnswered(k, q) ==
  /\ op.log[k].cmd = formatObdCommand(Chars[SUPPORTED_PID_QUERIES[q]])
  /\ op.log[k].state = "ok"

\* the payload of the reply in entry k, read as the reply to range query q
RangePayload(k, q) == parseResponseBytes(op.log[k].raw, Chars[SUPPORTED_PID_QUERIES[q]])

\* C12: when the decoded mask of the reply to 0100 (or 0120) has the bit of
\* the next range query (PID 20h, or 40h: the last of the 32 bits) clear, no
\* later range query is sent and querySupportedPids resolves.
C12_StopsOnNextRangeBit ==
  op.fn = "querySupportedPids" =>
    \A k \in 1..Len(op.log) : \A q \in 1..2 :
      (/\ RangeQueryAnswered(k, q)
       /\ Len(RangePayload(k, q)) >= 4
       /\ ~BitIsSet(RangePayload(k, q), 31))
        => (k = Len(op.log) /\ op.outcome = "resolved")

WitnessC12 ==
  /\ op.fn = "querySupportedPids" /\ op.outcome = "resolved"
  /\ op.log # <<>>
  /\ op.log[Len(op.log)].cmd = formatObdCommand(Chars["0100"])
  /\ op.log[Len(op.log)].raw = Chars["41 00 80 00 00 00"]
  /\ op.supported = << <<"0", "1", "0", "1">> >>

\* C13: when the reply to a range query yields fewer than 4 payload bytes, no
\* later range query is sent and querySupportedPids resolves with the ids
\* accumulated so far.
C13_StopsOnUnparsedReply ==
  op.fn = "querySupportedPids" =>
    \A k \in 1..Len(op.log) : \A q \in 1..Len(SUPPORTED_PID_QUERIES) :
      (RangeQueryAnswered(k, q) /\ Len(RangePayload(k, q)) < 4)
        => (k = Len(op.log) /\ op.outcome = "resolved")

\* C14: querySupportedPids rejects only when the transport reports
\* not-connected at entry; a failed header-set command or range query makes
\* it resolve with the ids accumulated so far.
C14_RejectsOnlyNotConnected ==
  (op.fn = "querySupportedPids" /\ op.outcome = "rejected") => op.error = "not connected"

\* the direct operations and their arguments
OpCalls ==
  {<<"querySupportedPids", "">>, <<"readDTCs", "">>, <<"clearDTCs", "">>}
    \cup {<<"readPid", arg>> : arg \in ReadPidArgs}

\* C15: each direct operation called while the transport reports not
\* connected rejects with the not-connected error in the same step, calls
\* sendCommand not at all, leaves currentTxHeader alone and does nothing
\* afterwards (no retry).
C15_NotConnectedRejects ==
  /\ [](op.error = "not connected" =>
          /\ op.pc = "done" /\ op.outcome = "rejected" /\ op.log = <<>>
          /\ chains[OpCaller] = NoChain)
  /\ [][\A call \in OpCalls :
          (CallOp(call[1], call[2]) /\ ~(connectedDevice /\ connectionState = "connected")) =>
            /\ op'.outcome = "rejected" /\ op'.error = "not connected"
            /\ issued' = <<>>
            /\ currentTxHeader' = currentTxHeader]_vars

WitnessC15 ==
  /\ op.fn = "readDTCs" /\ op.outcome = "rejected" /\ op.error = "not connected"
  /\ currentTxHeader = Chars["7DF"]
  /\ issued = <<>>

\* C16: readPid with an id that is not in the merged registry rejects in the
\* same step (with the unknown-signal error when the transport is connected),
\* calls sendCommand for neither a header nor a request, and leaves
\* currentTxHeader and the polling state unchanged.
C16_UnknownSignalRejects ==
  [][\A arg \in ReadPidArgs :
       (CallOp("readPid", arg) /\ arg \notin DOMAIN allPidDefinitions) =>
         /\ op'.pc = "done" /\ op'.outcome = "rejected"
         /\ (connectedDevice /\ connectionState = "connected") => op'.error = "unknown pid"
         /\ issued' = <<>> /\ op'.log = <<>>
         /\ chains'[OpCaller] = NoChain
         /\ UNCHANGED <<currentTxHeader, isPolling, pollingTimer>>]_vars

WitnessC16 ==
  /\ op.fn = "readPid" /\ op.arg = "010d"
  /\ op.outcome = "rejected" /\ op.error = "unknown pid"
  /\ connectedDevice

\* the log entries of command cmd that settled as state
EntriesOf(cmd, state) ==
  {k \in 1..Len(op.log) : op.log[k].cmd = cmd /\ op.log[k].state = state}

\* the codes readDTCs takes from the settled request cmd
CodesOf(cmd, isPending) ==
  IF EntriesOf(cmd, "ok") = {} THEN <<>>
  ELSE parseDTCResponse(op.log[CHOOSE k \in EntriesOf(cmd, "ok") : TRUE].raw, isPending)

\* C18: when the Mode 03 request rejects the Mode 07 request is still sent;
\* readDTCs rejects only before the first request (never once 03 or 07 was
\* sent), and resolves with the stored codes of a successful 03 followed by
\* the pending codes of a successful 07, stored ones flagged isPending =
\* false and pending ones true.
C18_CategoriesIndependent ==
  op.fn = "readDTCs" =>
    /\ \A k \in EntriesOf(Chars["03"], "err") :
         \E j \in (k + 1)..Len(op.log) : op.log[j].cmd = Chars["07"]
    /\ op.outcome = "rejected" =>
         \A k \in 1..Len(op.log) : op.log[k].cmd \notin {Chars["03"], Chars["07"]}
    /\ op.outcome = "resolved" =>
         /\ op.results = CodesOf(Chars["03"], FALSE) \o CodesOf(Chars["07"], TRUE)
         /\ \A k \in 1..Len(op.results) :
              op.results[k].isPending = (k > Len(CodesOf(Chars["03"], FALSE)))

WitnessC18 ==
  /\ op.fn = "readDTCs" /\ op.outcome = "resolved"
  /\ EntriesOf(Chars["03"], "err") # {}
  /\ Len(op.results) = 1
  /\ op.results[1] = [code |-> <<"P", "0", "2", "0", "4">>, isPending |-> TRUE]

\* the start positions of the reply's 2-hex-digit pairs, read left to right
PairStarts(s) ==
  LET P[i \in 1..Len(s)] ==
        /\ i < Len(s) /\ IsHex(s[i]) /\ IsHex(s[i + 1])
        /\ (i = 1 \/ ~P[i - 1])
  IN {i \in 1..Len(s) : P[i]}

\* the reply's bytes: its 2-hex-digit pairs in order
ReferenceBytes(s) ==
  LET starts == PairStarts(s)
  IN [k \in 1..Cardinality(starts) |->
        LET at == CHOOSE i \in starts : Cardinality({j \in starts : j <= i}) = k
        IN 16 * HexVal(s[at]) + HexVal(s[at + 1])]

\* the reference parser: the bytes after the first occurrence of
\* [requestMode + 0x40, ...request PID bytes] in the reply, prompt characters
\* removed and letters in upper case
ReferenceParser(raw, request) ==
  LET text == toUpperCase(stripPrompt(raw))
      req == toUpperCase(stripWhitespace(request))
      bytes == ReferenceBytes(text)
      echo == [k \in 1..(Len(req) \div 2) |->
                 (16 * HexVal(req[2 * k - 1]) + HexVal(req[2 * k]))
                   + (IF k = 1 THEN 64 ELSE 0)]
      found == {i \in 0..(Len(bytes) - Len(echo)) :
                  \A j \in 1..Len(echo) : bytes[i + j] = echo[j]}
      skip == (CHOOSE i \in found : \A j \in found : i <= j) + Len(echo)
  IN IF \E token \in {"NO DATA", "ERROR", "UNABLE TO CONNECT", "?"} :
          includes(text, Chars[token])
       THEN <<>>
     ELSE IF found = {} THEN <<>>
     ELSE [k \in 1..(Len(bytes) - skip) |-> bytes[skip + k]]

\* C17: parseResponseBytes(raw, request) equals the reference parser; '41 0C
\* 1A F8' for 010C gives [0x1A, 0xF8] and '62 01 38 7D' for 220138 gives
\* [0x7D].
C17_ParserMatchesReference ==
  (pure.fn = "parseResponseBytes" /\ pure.done) =>
    /\ pure.bytes = ReferenceParser(pure.raw, pure.request)
    /\ (pure.raw = Chars["41 0C 1A F8"] /\ pure.request = Chars["010C"]) =>
         pure.bytes = <<26, 248>>
    /\ (pure.raw = Chars["62 01 38 7D"] /\ pure.request = Chars["220138"]) =>
         pure.bytes = <<125>>

WitnessC17 ==
  /\ pure.fn = "parseResponseBytes" /\ pure.done
  /\ pure.raw = <<"4", "1", "0", "C", "1", "A", "1", "A">>
  /\ pure.request = Chars["010C"]
  /\ pure.bytes = <<26, 26>>

\* C19: readDTCs decodes the same trouble codes from a Mode 03/07 reply sent
\* with spaces ('43 01 03 01') and from the same reply sent without spaces
\* ('43010301'), as the adapter sends it after ATS0.
C19_SpacesDoNotMatter ==
  (pure.fn = "parseDTCResponse" /\ pure.done) => pure.spaced = pure.compact

\* the side effects the claim forbids to a superseded attempt
ForbiddenWhenStale(e) ==
  \/ e.kind \in {"connStore", "obdStore", "callback"}
  \/ e.kind = "protocol" /\ e.what \in {"new", "querySupportedPids", "startPolling"}

\* C20: a connect or startDemoMode attempt that has been superseded writes
\* neither store, creates or starts no OBDProtocol and invokes no callback.
C20_StaleAttemptsDoNothing ==
  \A k \in 1..Len(effects) :
    (attempts[effects[k].by].kind \in {"connect", "demo"} /\ effects[k].stale)
      => ~ForbiddenWhenStale(effects[k])

\* C21: a connect attempt that has been superseded never sets an error in
\* the connection store: no setError with a message is performed by a
\* connect attempt that is stale when it performs it.
C21_StaleConnectSetsNoError ==
  \A k \in 1..Len(effects) :
    (attempts[effects[k].by].kind = "connect" /\ effects[k].stale)
      => ~(effects[k].kind = "connStore" /\ effects[k].what = "setError")

DocumentedInitOrder == <<"ATZ", "ATE0", "ATL0", "ATS0", "ATH0", "ATSP0">>

\* C22: when a connect attempt issues the support query or starts polling,
\* it has sent reset, echo off, linefeeds off, spaces off, headers off and
\* protocol auto, in that order and nothing else, each one completed
\* without error before the next was sent; an attempt with a failed init
\* command never creates a protocol, so it never polls.
C22_InitBeforePolling ==
  /\ \A k \in 1..Len(effects) :
       (effects[k].kind = "protocol"
          /\ effects[k].what \in {"querySupportedPids", "startPolling"})
         => LET log == attempts[effects[k].by].log
            IN /\ Len(log) = 2 * Len(DocumentedInitOrder)
               /\ \A i \in 1..Len(DocumentedInitOrder) :
                    /\ log[2 * i - 1] = [kind |-> "elm", what |-> DocumentedInitOrder[i]]
                    /\ log[2 * i] = [kind |-> "elmDone", what |-> DocumentedInitOrder[i]]
  /\ \A a \in SessionIds :
       (\E i \in 1..Len(attempts[a].log) : attempts[a].log[i].kind = "elmFail")
         => protocols[a] = "none"

WitnessC22 ==
  /\ \E k \in 1..Len(effects) :
       effects[k].kind = "protocol" /\ effects[k].what = "startPolling"
  /\ \E a \in SessionIds :
       \E i \in 1..Len(attempts[a].log) : attempts[a].log[i].kind = "elmFail"

DefaultSignalSet == <<"010C", "010D", "0105", "0111", "0146", "0110", "015E">>

RequiredSubset == <<"010C", "010D", "0105", "0111">>

\* the list the claim prescribes for a settled support query
PrescribedList(settled) ==
  LET filtered == SelectSeq(DefaultSignalSet,
                            LAMBDA pid : \E i \in 1..Len(settled.pids) : settled.pids[i] = pid)
  IN IF settled.what = "throw" THEN DefaultSignalSet
     ELSE IF filtered = <<>> THEN RequiredSubset
     ELSE filtered

\* C23: the list connect passes to startPolling is the default set
\* filtered to the ids the support query returned, the whole default set
\* when the query threw, and the required four when filtering leaves
\* nothing; it is never empty and holds only ids of the default set.
C23_PolledListFromSupport ==
  \A k \in 1..Len(effects) :
    (effects[k].kind = "protocol" /\ effects[k].what = "startPolling")
      => /\ \E j \in 1..(k - 1) :
              /\ effects[j].kind = "supported" /\ effects[j].by = effects[k].by
              /\ effects[k].pids = PrescribedList(effects[j])
         /\ effects[k].pids # <<>>
         /\ \A i \in 1..Len(effects[k].pids) :
              \E d \in 1..Len(DefaultSignalSet) : DefaultSignalSet[d] = effects[k].pids[i]

WitnessC23 ==
  \E k \in 1..Len(effects) :
    /\ effects[k].kind = "protocol" /\ effects[k].what = "startPolling"
    /\ effects[k].pids = RequiredSubset
    /\ \E j \in 1..(k - 1) :
         effects[j].kind = "supported" /\ effects[j].pids = <<"0121">>

\* the last step invoked the polling callback with this outcome for pid
CallbackInvoked(what, pid) ==
  \E k \in 1..Len(effects') :
    effects'[k].kind = "callback" /\ effects'[k].what = what /\ effects'[k].pids = <<pid>>

\* C24: a polling callback that reports an error for an id changes neither
\* the OBD store (every entry keeps its last value) nor the connection
\* store; a polling callback changes an entry only when it brings a value
\* for that id, and the entry then holds that value.
C24_FailureKeepsLastValue ==
  [][/\ (\E pid \in CallbackIds : CallbackInvoked("error", pid))
          => UNCHANGED <<obdStore, connStore>>
     /\ \A pid \in CallbackIds :
          (CallbackInvoked("result", pid) \/ CallbackInvoked("error", pid))
            => \A other \in CallbackIds :
                 obdStore'.data[other] # obdStore.data[other]
                   => /\ CallbackInvoked("result", other)
                      /\ obdStore'.data[other] \in CallbackResults \ {<<>>}]_vars

WitnessC24 ==
  /\ \E k \in 1..Len(effects) : effects[k].kind = "callback" /\ effects[k].what = "error"
                                   /\ effects[k].pids = <<"010C">>
  /\ obdStore.data["010C"] = <<1, "41 0C 00 04">>
  /\ obdStore.data["0105"] # <<>>

\* C25: a sendCommand that waits for its reply settles in the end, with the
\* reply or rejected; the step in which it settles leaves no resolver and no
\* timer handle stored in the transport and its own timeout disarmed, so on
\* a connected transport the guards of a following sendCommand pass.
C25_EverySendCommandSettles ==
  /\ \A c \in ChainIds : (chains[c].stage = "wait") ~> (chains[c].stage # "wait")
  /\ [][\A c \in ChainIds :
          (chains[c].stage = "wait" /\ chains'[c].stage # "wait")
            => /\ chains'[c].stage \in {"ok", "err"}
               /\ responseResolve' = NoHandle /\ responseTimer' = NoHandle
               /\ c \notin responseTimers'
               /\ (connectedDevice' /\ connectionState' = "connected")
                    => sendCommand(NoChain, Chars["010C"])'.stage = "clear"]_vars

WitnessC25 ==
  \E c \in ChainIds :
    /\ chains[c].stage = "ok" /\ chains[c].result = Chars["410D3C"]
    /\ connectedDevice /\ connectionState = "connected"
    /\ responseResolve = NoHandle /\ responseTimer = NoHandle

\* the place of a letter of either case in the alphabet, 1 for A
Ordinal(ch) ==
  CHOOSE i \in 1..26 : Letters[i] = ch \/ SmallLetters[i] = ch

IsLetter(ch) == \E i \in 1..26 : Letters[i] = ch \/ SmallLetters[i] = ch

RECURSIVE Power26(_)
Power26(n) == IF n = 0 THEN 1 ELSE 26 * Power26(n - 1)

\* the spreadsheet column number of a name: the sum of its letters' places
\* weighted by powers of 26, from character i on
RECURSIVE ColumnNumber(_, _)
ColumnNumber(name, i) ==
  IF i > Len(name) THEN 0
  ELSE Ordinal(name[i]) * Power26(Len(name) - i) + ColumnNumber(name, i + 1)

\* C28: torqueVarToIndex gives a name of letters (of either case) its
\* spreadsheet column number minus one (A=0, Z=25, AA=26, AD=29, AZ=51,
\* BA=52) and any other name -1; as an expression the name decodes to the
\* byte at that index, or to 0 when the payload is shorter.
C28_VarIndexIsSpreadsheetColumn ==
  (pure.fn = "torqueVarToIndex" /\ pure.done) =>
    LET name == pure.name
        valid == name # <<>> /\ \A i \in 1..Len(name) : IsLetter(name[i])
    IN /\ pure.index = IF valid THEN ColumnNumber(name, 1) - 1 ELSE 0 - 1
       /\ name = <<"A">> => pure.index = 0
       /\ name = <<"Z">> => pure.index = 25
       /\ name = <<"A", "A">> => pure.index = 26
       /\ name = <<"A", "D">> => pure.index = 29
       /\ name = <<"A", "Z">> => pure.index = 51
       /\ name = <<"B", "A">> => pure.index = 52
       /\ valid => pure.value = IF pure.index < Len(LongPayload)
                                  THEN <<LongPayload[pure.index + 1], 1>>
                                  ELSE <<0, 1>>

WitnessC28 ==
  /\ pure.fn = "torqueVarToIndex" /\ pure.done
  /\ pure.name = <<"a", "D">> /\ pure.index = 29 /\ pure.value = <<130, 1>>

IsOperand(t) == t.type \in {"number", "var", "bit"}

\* the number of parentheses open before token i
OpenBefore(ts, i) ==
  Cardinality({j \in 1..(i - 1) : ts[j].type = "lparen"})
    - Cardinality({j \in 1..(i - 1) : ts[j].type = "rparen"})

\* the binary operators of ops that stand outside every parenthesis: an
\* operator is binary when an operand or a ')' stands before it
TopLevel(ts, ops) ==
  {i \in 2..Len(ts) :
     /\ ts[i].type = "op" /\ ts[i].op \in ops
     /\ OpenBefore(ts, i) = 0
     /\ (IsOperand(ts[i - 1]) \/ ts[i - 1].type = "rparen")}

Last(S) == CHOOSE i \in S : \A j \in S : j <= i

\* where a well-formed expression splits: at its last additive operator
\* outside parentheses, else at its last multiplicative one (0 if none)
RootOperator(ts) ==
  IF TopLevel(ts, {"+", "-"}) # {} THEN Last(TopLevel(ts, {"+", "-"}))
  ELSE IF TopLevel(ts, {"*", "/"}) # {} THEN Last(TopLevel(ts, {"*", "/"}))
  ELSE 0

\* the value of an operand token on the bytes
OperandValue(t, bytes) ==
  LET idx == ColumnNumber(t.name, 1) - 1
      byte == IF idx < Len(bytes) THEN bytes[idx + 1] ELSE 0
      shift == IF t.bit > 31 THEN 31 ELSE t.bit
      bitOf[b \in 0..255, n \in 0..31] == IF n = 0 THEN b % 2 ELSE bitOf[b \div 2, n - 1]
  IN CASE t.type = "number" -> t.value
       [] t.type = "var" -> <<byte, 1>>
       [] t.type = "bit" -> <<bitOf[byte, shift], 1>>

\* the reference evaluation of a token sequence: [ok, value], ok exactly for
\* the well-formed ones; a quotient with divisor 0 is 0
RECURSIVE Reference(_, _)
Reference(ts, bytes) ==
  LET root == RootOperator(ts)
      left == Reference(SubSeq(ts, 1, root - 1), bytes)
      right == Reference(SubSeq(ts, root + 1, Len(ts)), bytes)
      inner == Reference(SubSeq(ts, 2, Len(ts) - 1), bytes)
      negated == Reference(SubSeq(ts, 2, Len(ts)), bytes)
      bad == [ok |-> FALSE, value |-> <<0, 1>>]
  IN IF ts = <<>> THEN bad
     ELSE IF root # 0 THEN
       IF ~left.ok \/ ~right.ok THEN bad
       ELSE [ok |-> TRUE,
             value |-> CASE ts[root].op = "+" -> Plus(left.value, right.value)
                         [] ts[root].op = "-" -> Minus(left.value, right.value)
                         [] ts[root].op = "*" -> Times(left.value, right.value)
                         [] ts[root].op = "/" ->
                              IF right.value[1] = 0 THEN <<0, 1>>
                              ELSE Frac(left.value[1] * right.value[2],
                                        left.value[2] * right.value[1])]
     ELSE IF ts[1].type = "op" /\ ts[1].op = "-" THEN
       IF negated.ok THEN [ok |-> TRUE, value |-> <<0 - negated.value[1], negated.value[2]>>]
       ELSE bad
     ELSE IF ts[1].type = "lparen" /\ ts[Len(ts)].type = "rparen" THEN inner
     ELSE IF Len(ts) = 1 /\ IsOperand(ts[1]) THEN [ok |-> TRUE, value |-> OperandValue(ts[1], bytes)]
     ELSE bad

\* a compiled expression and its tokens
Compiled == pure.fn = "compileTorqueEquation" /\ pure.done
ExpressionTokens == tokenize(pure.expression)

\* C27: a well-formed expression decodes to its reference value: * and /
\* before + and -, operators of one level from left to right, and '-' a
\* negation at the start, after an operator and after '('.
C27_DecoderMatchesReference ==
  (Compiled /\ ExpressionTokens.ok) =>
    LET ref == Reference(ExpressionTokens.tokens, pure.bytes)
    IN /\ ref.ok => pure.value = ref.value
       /\ (pure.expression = <<"-", "A", " ", "/", " ", "2">> /\ pure.bytes = <<10>>)
            => pure.value = <<0 - 5, 1>>
       /\ (pure.expression = <<"A", " ", "*", " ", "3", "2", " ", "/", " ", "2", "5">>
             /\ pure.bytes = <<100>>)
            => pure.value = <<128, 1>>

WitnessC27 ==
  /\ Compiled
  /\ pure.expression = <<"A", " ", "*", " ", "3", "2", " ", "/", " ", "2", "5">>
  /\ pure.bytes = <<100>>
  /\ pure.value = <<128, 1>>

\* the expression is empty, does not tokenize, or is not well-formed
Malformed ==
  \/ trim(pure.expression) = <<>>
  \/ ~ExpressionTokens.ok
  \/ ~Reference(ExpressionTokens.tokens, pure.bytes).ok

\* C26: the decoder compiled from the empty string or from a malformed
\* expression (unknown character, unterminated '{', invalid bit extraction,
\* mismatched parentheses, an operator with a missing operand, two operands
\* with no operator between them) returns 0 for every byte array.
C26_MalformedDecodesToZero ==
  (Compiled /\ Malformed) => pure.value = <<0, 1>>

\* the well-formed expression is a quotient whose divisor evaluates to 0
QuotientByZero ==
  LET ts == ExpressionTokens.tokens
      root == RootOperator(ts)
      dividend == Reference(SubSeq(ts, 1, root - 1), pure.bytes)
      divisor == Reference(SubSeq(ts, root + 1, Len(ts)), pure.bytes)
  IN /\ ExpressionTokens.ok /\ root # 0 /\ ts[root].op = "/"
     /\ dividend.ok /\ divisor.ok /\ divisor.value = <<0, 1>>

\* C30: a quotient whose divisor evaluates to 0 decodes to 0, and no
\* decoder returns a value that is not finite.
C30_DivisionByZeroIsZero ==
  Compiled =>
    /\ QuotientByZero => pure.value = <<0, 1>>
    /\ pure.value[2] # 0

WitnessC30 ==
  /\ Compiled /\ QuotientByZero
  /\ pure.expression = <<"2", "/", "A">> /\ pure.bytes = <<0, 3>>
  /\ pure.value = <<0, 1>>

\* bit k of a byte, bit 0 the lowest; a byte has no bits above bit 7
ByteBit(b, k) ==
  IF k > 7 THEN 0 ELSE (b \div <<1, 2, 4, 8, 16, 32, 64, 128>>[k + 1]) % 2

\* C29: {V:n} decodes to bit min(n, 31) of byte V, bit 0 the lowest, so to
\* 0 or 1, and '(A - {A:7} * 256)' decodes a byte to its signed value.
C29_BitExtraction ==
  (Compiled /\ Len(pure.bytes) = 1) =>
    LET b == pure.bytes[1]
        n == ExpressionTokens.tokens[1].bit
    IN /\ (pure.expression \in BitExpressions)
            => /\ pure.value = <<ByteBit(b, IF n > 31 THEN 31 ELSE n), 1>>
               /\ pure.value \in {<<0, 1>>, <<1, 1>>}
       /\ (pure.expression = <<"(", "A", " ", "-", " ", "{", "A", ":", "7", "}", " ",
                                "*", " ", "2", "5", "6", ")">>)
            => pure.value = <<IF b < 128 THEN b ELSE b - 256, 1>>

WitnessC29 ==
  /\ Compiled
  /\ pure.expression = <<"(", "A", " ", "-", " ", "{", "A", ":", "7", "}", " ",
                          "*", " ", "2", "5", "6", ")">>
  /\ pure.bytes = <<128>> /\ pure.value = <<0 - 128, 1>>

(***************************************************************************)
(* decodeSupportedPids as a function of the range query and the bytes of   *)
(* the adapter's answer.                                                   *)
(***************************************************************************)
MaxMaskBytes == 4

\* the range queries: the three the engine sends, another service, and the
\* last range, whose ids pass FF
RangeQueries ==
  { Chars["0100"], Chars["0120"], Chars["0140"], <<"0", "9", "0", "0">>,
    <<"0", "1", "E", "0">> }

\* byte values of a bitmask: none, all, the top bit, the low bit, a mixture
MaskBytes == {0, 255, 128, 1, 90}

SupportedInit ==
  /\ EngineInit
  /\ ClientInit
  /\ op = NoOp
  /\ pure \in {[fn |-> "decodeSupportedPids", query |-> query, bytes |-> bytes,
                supported |-> <<>>, done |-> FALSE] :
                 query \in RangeQueries, bytes \in SeqsUpTo(MaskBytes, MaxMaskBytes)}

\* decodeSupportedPids runs on the query and the bytes
RunDecodeSupported ==
  /\ pure.fn = "decodeSupportedPids"
  /\ ~pure.done
  /\ pure' = [pure EXCEPT !.supported = decodeSupportedPids(pure.query, pure.bytes),
                          !.done = TRUE]
  /\ UNCHANGED <<protocolVars, transportVars, pollTimers, nChains, chains, devCmd,
                 emitted, issued, written, op, clientVars, serviceVars>>

SupportedNext == RunDecodeSupported

SupportedSpec == SupportedInit /\ [][SupportedNext]_vars

\* the eight bits of a byte, the most significant first
RECURSIVE BitsOfByte(_, _)
BitsOfByte(b, width) ==
  IF width = 0 THEN <<>> ELSE BitsOfByte(b \div 2, width - 1) \o <<b % 2>>

\* the 32 bits of the first four bytes, bit k = 0 the most significant bit
\* of the first byte
MaskBits(bytes) ==
  BitsOfByte(bytes[1], 8) \o BitsOfByte(bytes[2], 8) \o BitsOfByte(bytes[3], 8)
    \o BitsOfByte(bytes[4], 8)

\* the number an upper-case hex string denotes, -1 when it is none
RECURSIVE HexNumber(_)
HexNumber(s) ==
  IF s = <<>> THEN 0
  ELSE IF ~IsHex(s[Len(s)]) THEN 0 - 1
  ELSE LET high == HexNumber(SubSeq(s, 1, Len(s) - 1))
       IN IF high < 0 THEN 0 - 1 ELSE 16 * high + HexVal(s[Len(s)])

DecodedSupported == pure.fn = "decodeSupportedPids" /\ pure.done

\* C31: the result lists, in ascending order, exactly mode + hex(basePid +
\* k + 1) for the k in 0..31 whose bit is set in the first four bytes, bit 0
\* the top bit of the first byte, in upper-case hex of at least two digits;
\* FF FF FF FF on 0100 gives 0101..0120, fewer than four bytes give nothing.
C31_SupportedIdsFromBits ==
  DecodedSupported =>
    LET query == pure.query
        out == pure.supported
        basePid == HexNumber(SubSeq(query, 3, 4))
        set == IF Len(pure.bytes) < 4 THEN {}
               ELSE {k \in 0..31 : MaskBits(pure.bytes)[k + 1] = 1}
        number(i) == HexNumber(SubSeq(out[i], 3, Len(out[i])))
    IN /\ Len(out) = Cardinality(set)
       /\ \A i \in 1..Len(out) :
            /\ SubSeq(out[i], 1, 2) = SubSeq(query, 1, 2)
            /\ Len(out[i]) >= 4
            /\ Len(out[i]) > 4 => out[i][3] # "0"
            /\ number(i) - basePid - 1 \in set
            /\ i > 1 => number(i - 1) < number(i)
       /\ (Len(pure.bytes) < 4) => out = <<>>
       /\ (pure.query = Chars["0100"] /\ pure.bytes = <<255, 255, 255, 255>>)
            => out = [i \in 1..32 |->
                        <<"0", "1", HexDigits[(i \div 16) + 1], HexDigits[(i % 16) + 1]>>]

WitnessC31 ==
  /\ DecodedSupported
  /\ pure.query = Chars["0120"] /\ pure.bytes = <<128, 0, 90, 1>>
  /\ pure.supported =
       << <<"0", "1", "2", "1">>, <<"0", "1", "3", "2">>, <<"0", "1", "3", "4">>,
          <<"0", "1", "3", "5">>, <<"0", "1", "3", "7">>, <<"0", "1", "4", "0">> >>

(***************************************************************************)
(* The merged registry as a function of the alias table and the generated  *)
(* table.                                                                  *)
(***************************************************************************)
\* ids a table may define: hand-written names and a generated-style name
RegistryIds == {"TOYOTA_HV_VOLTAGE", "TOYOTA_CABIN_TEMP", "PC_7E2_2181_V01"}

\* a table of the given kind defining the given ids; the decode field tells
\* the kinds apart
TableOf(kind, ids) ==
  [id \in ids |-> [request |-> "2181", header |-> "7E2", decode |-> kind]]

RegistryInit ==
  /\ EngineInit
  /\ ClientInit
  /\ op = NoOp
  /\ pure \in {[fn |-> "allPidDefinitions", alias |-> TableOf("alias", a),
                generated |-> TableOf("generated", g), id |-> id,
                found |-> Null, done |-> FALSE] :
                 a \in SUBSET RegistryIds, g \in SUBSET RegistryIds,
                 id \in RegistryIds \cup {"010D"}}

\* the tables are merged as the module and the constructor merge them, and
\* the id is looked up
RunLookup ==
  /\ pure.fn = "allPidDefinitions"
  /\ ~pure.done
  /\ LET all == MergeAll(STANDARD_PIDS, MergeToyota(pure.alias, pure.generated))
     IN pure' = [pure EXCEPT !.found = IF pure.id \in DOMAIN all THEN all[pure.id]
                                       ELSE Null,
                             !.done = TRUE]
  /\ UNCHANGED <<protocolVars, transportVars, pollTimers, nChains, chains, devCmd,
                 emitted, issued, written, op, clientVars, serviceVars>>

RegistryNext == RunLookup

RegistrySpec == RegistryInit /\ [][RegistryNext]_vars

HeaderNext ==
  \/ \E pids \in PollLists : StartPolling(pids)
  \/ StopPolling
  \/ \E c \in ChainIds : PollTimerFires(c)
  \/ \E c \in ChainIds : Resume(c)
  \/ \E c \in ChainIds : ClearDoneNoted(c)
  \/ \E c \in ChainIds, ok \in BOOLEAN : WriteDone(c, ok)
  \/ \E message \in DeviceReplies : DeviceReply(message)
  \/ \E c \in ChainIds : ResponseTimeout(c)
  \/ UnexpectedDisconnect

HeaderSpec == Init /\ [][HeaderNext]_vars

\* C33: a data request is transmitted only when the last header-set command
\* transmitted before it carries the header of the request's signal (7DF
\* when the signal has none).
C33_RequestUnderItsHeader ==
  \A k \in 1..Len(written) :
    LET ch == chains[written[k].by]
    IN ch.pc = "req" => lastHeaderSent = DesiredHeader(ch.groups[ch.gi].header)

\* C34: a superseded connect attempt sends its adapter commands and its
\* transport.disconnect() only on the connection it opened itself (or on
\* none), never on the connection a newer attempt has established.
C34_StaleAttemptKeepsToItsConnection ==
  [][\A i \in 1..Len(effects') :
       LET e == effects'[i]
       IN (e.stale /\ attempts[e.by].kind = "connect") =>
            /\ e.kind = "elm" => e.link \in {NoHandle, e.by}
            /\ (e.kind = "transport" /\ e.what = "disconnect")
                 => clientTransport.device \in {NoHandle, e.by}]_vars

\* every call has run to its end and no polling cycle is still in flight
Quiescent ==
  /\ \A a \in SessionIds : attempts[a].pc \in {"none", "done"}
  /\ \A a \in SessionIds : protocols[a] # "draining"

\* C35: when disconnect() was the last call and all in-flight work has
\* settled, the transport is disconnected, nothing polls and the connection
\* store is in its disconnected state with no device, no error, not ready
\* and not in demo mode.
C35_DisconnectEndsQuiescent ==
  (sessionId > 0 /\ attempts[sessionId].kind = "disconnect" /\ Quiescent) =>
    /\ clientTransport.device = NoHandle
    /\ clientTransport.made => clientTransport.state = "disconnected"
    /\ \A a \in SessionIds : protocols[a] # "polling"
    /\ ~obdStore.pollingActive
    /\ ~mockRunning
    /\ connStore = [state |-> "disconnected", device |-> "null", isElm327Ready |-> FALSE,
                    error |-> "null", demoMode |-> FALSE]

(***************************************************************************)
(* The transport with the adapter's backlog noted: the adapter answers the *)
(* commands written to it one after the other, oldest first.  An entry     *)
(* names the caller whose sendCommand wrote the command and tells whether  *)
(* that call has been rejected since.                                      *)
(***************************************************************************)
MaxUnanswered == 2

\* the backlog after this step's rejections: the calls rejected by the step
\* are over
AfterRejections(backlog) ==
  [k \in 1..Len(backlog) |->
     IF chains[backlog[k].by].stage = "wait" /\ chains'[backlog[k].by].stage = "err"
       THEN [backlog[k] EXCEPT !.over = TRUE]
       ELSE backlog[k]]

\* write() returns: the adapter has one more command to answer
WriteDoneNoted(c, ok) ==
  /\ WriteReturns(c, ok)
  /\ ok => Len(unanswered) < MaxUnanswered
  /\ unanswered' = IF ok THEN Append(unanswered, [by |-> c, over |-> FALSE])
                   ELSE unanswered
  /\ UNCHANGED <<lastHeaderSent, called, elm, logw>>

\* the adapter's answer to the oldest unanswered command arrives
DeviceReplyNoted(message) ==
  /\ unanswered # <<>>
  /\ handleIncomingMessage(message)
  /\ unanswered' = Tail(unanswered)
  /\ UNCHANGED <<lastHeaderSent, called, elm, logw>>

\* a response timeout fires: the calls it rejects are over
ResponseTimeoutNoted(c) ==
  /\ TimeoutFires(c)
  /\ unanswered' = AfterRejections(unanswered)
  /\ UNCHANGED <<lastHeaderSent, called, elm, logw>>

ReplyNext ==
  \/ \E c \in ChainIds, cmd \in TransportCommands : CallSendCommand(c, cmd)
  \/ \E c \in ChainIds : Settled(c)
  \/ \E c \in ChainIds : ClearDone(c)
  \/ \E c \in ChainIds, ok \in BOOLEAN : WriteDoneNoted(c, ok)
  \/ \E message \in DeviceReplies : DeviceReplyNoted(message)
  \/ \E c \in ChainIds : ResponseTimeoutNoted(c)
  \/ UnexpectedDisconnect

ReplySpec == Init /\ [][ReplyNext]_vars

\* C36: a sendCommand call is resolved only by the reply to the command it
\* wrote itself, never by the reply to a command whose call has timed out
\* or been cancelled, nor by the reply to another caller's command.
C36_ReplyResolvesItsOwnCall ==
  [][\A c \in ChainIds :
       (chains[c].stage = "wait" /\ chains'[c].stage = "ok")
         => /\ unanswered # <<>>
            /\ Head(unanswered) = [by |-> c, over |-> FALSE]]_vars

(***************************************************************************)
(* The polling engine with the callbacks of each cycle noted.              *)
(***************************************************************************)
\* the lists polled here: two groups, an id that occurs twice and an id
\* without a definition
CycleLists == { <<>>, <<"TOYOTA_CABIN_TEMP", "010D", "010d", "010D">> }

CallbackNext ==
  \/ \E pids \in CycleLists : StartPolling(pids)
  \/ StopPolling
  \/ \E c \in ChainIds : PollTimerFires(c)
  \/ \E c \in ChainIds : ResumeNoted(c)
  \/ \E c \in ChainIds : ClearDone(c)
  \/ \E c \in ChainIds, ok \in BOOLEAN : WriteDone(c, ok)
  \/ \E message \in DeviceReplies : DeviceReply(message)
  \/ \E c \in ChainIds : ResponseTimeout(c)
  \/ UnexpectedDisconnect

CallbackSpec == Init /\ [][CallbackNext]_vars

\* this step takes closure c past its last group: its cycle is complete
CompletesCycle(c) ==
  /\ chains[c].stage \in {"ok", "err"}
  /\ chains[c].gi = Len(chains[c].groups)
  /\ chains'[c].pc \in {"sleep", "done"}

\* the ids the callback of closure c was invoked for in the cycle this step
\* completes, in order
CalledInCycle(c) == called[c] \o [k \in 1..Len(emitted') |-> emitted'[k].id]

MaxElmCalls == 3

Rejects == <<"reject">>

\* what transport.sendCommand settles with
ElmOutcomes == { Chars["OK"], Chars["?"], Chars["NO DATA"], Rejects }

ElmPids == { "010C" }

errorPatterns ==
  { Chars["NO DATA"], Chars["UNABLE TO CONNECT"], <<"B","U","S"," ","I","N","I","T">>,
    <<"B","U","S"," ","E","R","R","O","R">>, <<"C","A","N"," ","E","R","R","O","R">>,
    Chars["ERROR"], Chars["?"] }

isErrorResponse(response) ==
  LET upper == trim(toUpperCase(response))
  IN \E pattern \in errorPatterns : includes(upper, pattern)

isReady == elm.ready

ElmCallIds == 1..Len(elm.calls)

\* call k hands a command to the transport and waits for it to settle
ElmSends(call, command) ==
  [call EXCEPT !.pc = "send", !.sent = Append(@, command)]

\* call k returns
ElmReturns(e, k, result) ==
  [e EXCEPT !.calls[k].pc = "done", !.calls[k].result = result,
            !.finished = Append(@, k)]

\* what the Elm327 calls leave alone
notElm == <<protocolVars, transportVars, pollTimers, nChains, chains, devCmd,
            emitted, issued, written, op, pure, clientVars,
            lastHeaderSent, unanswered, called, logw>>

\* initialize() is called: ready = false, and the first command is sent
CallInitialize ==
  /\ Len(elm.calls) < MaxElmCalls
  /\ elm' = [elm EXCEPT
               !.ready = FALSE,
               !.calls = Append(@, ElmSends([NoElmCall EXCEPT !.fn = "initialize",
                                                             !.ii = 1,
                                                             !.readyAtCall = elm.ready],
                                            INIT_COMMANDS[1]))]
  /\ UNCHANGED notElm

\* reset() is called: ATZ is sent
CallReset ==
  /\ Len(elm.calls) < MaxElmCalls
  /\ elm' = [elm EXCEPT
               !.calls = Append(@, ElmSends([NoElmCall EXCEPT !.fn = "reset",
                                                             !.readyAtCall = elm.ready],
                                            "ATZ"))]
  /\ UNCHANGED notElm

\* sendOBDCommand(pid) is called: it throws when ready is false
CallSendOBDCommand(pid) ==
  /\ Len(elm.calls) < MaxElmCalls
  /\ LET k == Len(elm.calls) + 1
         call == [NoElmCall EXCEPT !.fn = "sendOBDCommand", !.readyAtCall = elm.ready]
     IN elm' = IF ~elm.ready
                 THEN ElmReturns([elm EXCEPT !.calls = Append(@, call)], k, "rejected")
                 ELSE [elm EXCEPT !.calls = Append(@, ElmSends(call, pid))]
  /\ UNCHANGED notElm

\* the command call k is waiting for settles
ElmCommandSettles(k, outcome) ==
  /\ k \in ElmCallIds
  /\ elm.calls[k].pc = "send"
  /\ LET noted == [elm EXCEPT !.calls[k].replies = Append(@, outcome)]
         fn == elm.calls[k].fn
     IN elm' =
          CASE fn = "initialize" ->
                 IF outcome = Rejects THEN ElmReturns(noted, k, "false")
                 ELSE [noted EXCEPT !.calls[k].pc = "delay"]
            [] fn = "reset" ->
                 IF outcome = Rejects
                   THEN ElmReturns([noted EXCEPT !.ready = FALSE], k, "resolved")
                 ELSE [noted EXCEPT !.calls[k].pc = "delay"]
            [] OTHER ->
                 IF outcome = Rejects \/ isErrorResponse(outcome)
                   THEN ElmReturns(noted, k, "rejected")
                 ELSE ElmReturns(noted, k, "resolved")
  /\ UNCHANGED notElm

\* the delay call k is waiting for is over
ElmDelayOver(k) ==
  /\ k \in ElmCallIds
  /\ elm.calls[k].pc = "delay"
  /\ LET call == elm.calls[k]
         response == call.replies[Len(call.replies)]
     IN elm' =
          IF call.fn = "reset" THEN ElmReturns([elm EXCEPT !.ready = FALSE], k, "resolved")
          ELSE IF isErrorResponse(response) THEN ElmReturns(elm, k, "false")
          ELSE IF call.ii < Len(INIT_COMMANDS)
            THEN [elm EXCEPT !.calls[k] = ElmSends([call EXCEPT !.ii = @ + 1],
                                                   INIT_COMMANDS[call.ii + 1])]
          ELSE ElmReturns([elm EXCEPT !.ready = TRUE], k, "true")
  /\ UNCHANGED notElm

ElmInit ==
  /\ EngineInit
  /\ ClientInit
  /\ op = NoOp
  /\ pure = NoPure

ElmNext ==
  \/ CallInitialize
  \/ CallReset
  \/ \E pid \in ElmPids : CallSendOBDCommand(pid)
  \/ \E k \in 1..MaxElmCalls, outcome \in ElmOutcomes : ElmCommandSettles(k, outcome)
  \/ \E k \in 1..MaxElmCalls : ElmDelayOver(k)

ElmSpec == ElmInit /\ [][ElmNext]_vars

\* the initialize() calls made so far, and the most recent of them
InitializeCalls == {k \in ElmCallIds : elm.calls[k].fn = "initialize"}
MostRecentInitialize == CHOOSE k \in InitializeCalls : \A j \in InitializeCalls : j <= k

\* the place of call k in the order of returns; 0 when it has not returned
ReturnedAt(k) ==
  IF \E i \in 1..Len(elm.finished) : elm.finished[i] = k
    THEN CHOOSE i \in 1..Len(elm.finished) : elm.finished[i] = k
    ELSE 0

\* call k is an initialize() that returned, and no reset() has returned since
CompletedAndNotReset(k) ==
  /\ ReturnedAt(k) > 0
  /\ ~\E r \in ElmCallIds : elm.calls[r].fn = "reset" /\ ReturnedAt(r) > ReturnedAt(k)

\* an initialize() that has returned sent the init commands up to the first
\* that failed and returned false, or sent all six without a failure and
\* returned true
StopsAtFirstFailure(call) ==
  LET n == Len(call.sent)
      failed(i) == call.replies[i] = Rejects \/ isErrorResponse(call.replies[i])
  IN /\ call.sent = SubSeq(INIT_COMMANDS, 1, n)
     /\ Len(call.replies) = n
     /\ \A i \in 1..(n - 1) : ~failed(i)
     /\ call.result = "false" <=> failed(n)
     /\ call.result = "true" <=> (n = Len(INIT_COMMANDS) /\ ~failed(n))

\* C38: a returned initialize() stopped at its first failing command and
\* returned false, or sent all six and returned true; isReady() is true
\* exactly when the most recent initialize() call has returned true (and no
\* reset() has returned after it); a sendOBDCommand called while isReady()
\* was false sent nothing and rejected.
C38_ReadyIffLastInitializeSucceeded ==
  /\ \A k \in InitializeCalls :
       elm.calls[k].pc = "done" => StopsAtFirstFailure(elm.calls[k])
  /\ isReady <=> /\ InitializeCalls # {}
                 /\ elm.calls[MostRecentInitialize].result = "true"
                 /\ CompletedAndNotReset(MostRecentInitialize)
  /\ \A k \in ElmCallIds :
       (elm.calls[k].fn = "sendOBDCommand" /\ ~elm.calls[k].readyAtCall)
         => (elm.calls[k].sent = <<>> /\ elm.calls[k].result = "rejected")

\* the first and the last part of C38 on their own
ElmStopsAndGuards ==
  /\ \A k \in InitializeCalls :
       elm.calls[k].pc = "done" => StopsAtFirstFailure(elm.calls[k])
  /\ \A k \in ElmCallIds :
       (elm.calls[k].fn = "sendOBDCommand" /\ ~elm.calls[k].readyAtCall)
         => (elm.calls[k].sent = <<>> /\ elm.calls[k].result = "rejected")

(***************************************************************************)
(* LogWriter: startSession, addDataPoint, stopSession and the periodic     *)
(* flush.  database.createSession, insertDataPoints and endSession are     *)
(* awaited and settle later; other calls and the flush timer may run while *)
(* a call is suspended.  insertDataPoints runs in one exclusive            *)
(* transaction: it writes the whole batch or nothing.  BUFFER_SIZE is 50   *)
(* in the code and scaled down here.                                       *)
(***************************************************************************)
MaxLogCalls == 3
MaxPoints == 3
BUFFER_SIZE == 2

LogCallIds == 1..Len(logw.calls)

NoLogCall == [fn |-> "none", pc |-> "none", result |-> "none", arg |-> NoHandle,
              seen |-> NoHandle]

\* flush() up to its await: returns at once while a flush is in flight, with
\* no session or with an empty buffer; else takes the buffer as the batch and
\* calls insertDataPoints.  by is the stopSession call that awaits it
\* (NoHandle for the timer and addDataPoint, which only log a failure)
FlushStarts(w) == ~w.flushing /\ w.sessionId # NoHandle /\ w.buffer # <<>>

flush(w, by) ==
  IF ~FlushStarts(w) THEN w
  ELSE [w EXCEPT !.flushing = TRUE,
                 !.flush = [batch |-> w.buffer, sid |-> w.sessionId, by |-> by],
                 !.buffer = <<>>]

LogReturns(w, k, result) ==
  [w EXCEPT !.calls[k].pc = "done", !.calls[k].result = result]

\* what the LogWriter calls leave alone
notLog == <<protocolVars, transportVars, pollTimers, nChains, chains, devCmd,
            emitted, issued, written, op, pure, clientVars,
            lastHeaderSent, unanswered, called, elm>>

\* startSession() is called: it throws while sessionId is set, else awaits
\* database.createSession()
startSession ==
  /\ Len(logw.calls) < MaxLogCalls
  /\ LET k == Len(logw.calls) + 1
         w == [logw EXCEPT !.calls = Append(@, [NoLogCall EXCEPT !.fn = "startSession",
                                                                 !.pc = "create"])]
     IN logw' = IF logw.sessionId # NoHandle THEN LogReturns(w, k, "rejected") ELSE w
  /\ UNCHANGED notLog

\* createSession settles for call k: the row is inserted, sessionId and an
\* empty buffer are set and a new interval is stored in flushInterval
CreateSessionSettles(k, ok) ==
  /\ k \in LogCallIds
  /\ logw.calls[k].pc = "create"
  /\ LET id == Len(logw.sessions) + 1
         timer == logw.nTimers + 1
     IN logw' =
          IF ~ok THEN LogReturns(logw, k, "rejected")
          ELSE LogReturns([logw EXCEPT
                             !.sessions = Append(@, [open |-> TRUE, points |-> <<>>,
                                                     endedBy |-> NoHandle]),
                             !.sessionId = id,
                             !.buffer = <<>>,
                             !.nTimers = timer,
                             !.timers = @ \cup {timer},
                             !.flushInterval = timer],
                          k, "resolved")
  /\ UNCHANGED notLog

\* addDataPoint(pid, value): nothing without a session; else the point is
\* buffered, and a full buffer is flushed
addDataPoint ==
  /\ Len(logw.added) < MaxPoints
  /\ LET point == Len(logw.added) + 1
         w == [logw EXCEPT !.buffer = Append(@, point),
                           !.added = Append(@, [point |-> point, sid |-> logw.sessionId])]
     IN logw' = IF logw.sessionId = NoHandle THEN logw
                ELSE IF Len(w.buffer) >= BUFFER_SIZE THEN flush(w, NoHandle)
                ELSE w
  /\ UNCHANGED notLog

\* an interval that is set fires: flush()
FlushTimerFires(t) ==
  /\ t \in logw.timers
  /\ logw' = flush(logw, NoHandle)
  /\ UNCHANGED notLog

\* stopSession() is called: nothing without a session; else the interval in
\* flushInterval is cleared and flush() awaited; when flush() returns at once
\* endSession(this.sessionId) is next
stopSession ==
  /\ Len(logw.calls) < MaxLogCalls
  /\ LET k == Len(logw.calls) + 1
         w == [logw EXCEPT !.calls = Append(@, [NoLogCall EXCEPT !.fn = "stopSession",
                                                                 !.seen = Len(logw.added)]),
                           !.timers = @ \ {logw.flushInterval},
                           !.flushInterval = NoHandle]
     IN logw' =
          IF logw.sessionId = NoHandle
            THEN LogReturns([logw EXCEPT !.calls = w.calls], k, "resolved")
          ELSE IF FlushStarts(w)
            THEN [flush(w, k) EXCEPT !.calls[k].pc = "flush"]
          ELSE [w EXCEPT !.calls[k].pc = "end", !.calls[k].arg = w.sessionId]
  /\ UNCHANGED notLog

\* insertDataPoints settles: the batch is in the table, or it is put back at
\* the front of the buffer and the error goes to the caller; flushing = false.
\* A stopSession that awaited the flush goes on to endSession(this.sessionId)
\* or rejects
InsertSettles(ok) ==
  /\ logw.flushing
  /\ LET f == logw.flush
         w == IF ok
                THEN [logw EXCEPT !.sessions[f.sid].points = @ \o f.batch,
                                  !.flushing = FALSE, !.flush = NoFlush]
                ELSE [logw EXCEPT !.buffer = f.batch \o @,
                                  !.flushing = FALSE, !.flush = NoFlush]
     IN logw' =
          IF f.by = NoHandle THEN w
          ELSE IF ok THEN [w EXCEPT !.calls[f.by].pc = "end",
                                    !.calls[f.by].arg = w.sessionId]
          ELSE LogReturns(w, f.by, "rejected")
  /\ UNCHANGED notLog

\* endSession settles for call k: the row has its end_time, sessionId is null
\* and the buffer is emptied; or stopSession rejects
EndSessionSettles(k, ok) ==
  /\ k \in LogCallIds
  /\ logw.calls[k].pc = "end"
  /\ LET arg == logw.calls[k].arg
         ended == IF arg = NoHandle THEN logw
                  ELSE [logw EXCEPT !.sessions[arg].open = FALSE,
                                    !.sessions[arg].endedBy = k]
     IN logw' =
          IF ~ok THEN LogReturns(logw, k, "rejected")
          ELSE LogReturns([ended EXCEPT !.sessionId = NoHandle, !.buffer = <<>>],
                          k, "resolved")
  /\ UNCHANGED notLog

LogInit ==
  /\ EngineInit
  /\ ClientInit
  /\ op = NoOp
  /\ pure = NoPure

LogNext ==
  \/ startSession
  \/ \E k \in 1..MaxLogCalls, ok \in BOOLEAN : CreateSessionSettles(k, ok)
  \/ addDataPoint
  \/ \E t \in 1..MaxLogCalls : FlushTimerFires(t)
  \/ stopSession
  \/ \E ok \in BOOLEAN : InsertSettles(ok)
  \/ \E k \in 1..MaxLogCalls, ok \in BOOLEAN : EndSessionSettles(k, ok)

LogSpec == LogInit /\ [][LogNext]_vars

\* how often point p is in the rows of session s
TimesWritten(s, p) ==
  Cardinality({i \in 1..Len(logw.sessions[s].points) : logw.sessions[s].points[i] = p})

\* C39: when a session has been ended, every point that was added to it
\* before the call of the stopSession that ended it is in the database, once.
C39_StopWritesEveryPoint ==
  \A s \in 1..Len(logw.sessions) :
    ~logw.sessions[s].open =>
      \A i \in 1..logw.calls[logw.sessions[s].endedBy].seen :
        logw.added[i].sid = s => TimesWritten(s, logw.added[i].point) = 1

\* the rows of the sessions table without an end_time
OpenSessions == {s \in 1..Len(logw.sessions) : logw.sessions[s].open}

\* no startSession is suspended at createSession
NoStartInFlight == \A k \in LogCallIds : logw.calls[k].pc # "create"

\* C40: at most one database session is open and at most one flush interval
\* is set, and none is set when no session is recording or being started.
C40_OneSessionOneTimer ==
  /\ Cardinality(OpenSessions) <= 1
  /\ Cardinality(logw.timers) <= 1
  /\ (logw.sessionId = NoHandle /\ NoStartInFlight) => logw.timers = {}

====
